---- MODULE Spec2Model ----
(***************************************************************************)
(* A model of the playlist synchronisation and bulk-operation engine of    *)
(* spotify-power-playlists: the token session (SpotifyAuth), the cache     *)
(* (PlaylistDatabase), the sync service (PlaylistSyncService), the bulk    *)
(* operations (PlaylistOperations) and the IPC facade (ipc-handlers.ts).   *)
(*                                                                         *)
(* Strings are sequences of one-character strings, so that startsWith,     *)
(* split, join and ORDER BY are computed rather than assumed.  A track URI *)
(* is kept as its colon-separated segments: "spotify:track:A" is           *)
(* <<"spotify","track","A">>, and the empty string is <<>>.                *)
(***************************************************************************)
EXTENDS Integers, Sequences, FiniteSets, TLC

VARIABLES
    token,      \* the token store: "none" | "fresh" | "stale" (within 5 min of expiry)
    cache,      \* playlists table: spotify_id -> row
    history,    \* operation_history table, oldest first
    rlib,       \* remote: ids returned by "list my playlists"
    rtracks,    \* remote: id -> sequence of track items
    rname,      \* remote: id -> playlist name
    created,    \* remote: number of playlists created so far
    passes,     \* detail passes in flight
    calls,      \* remote playlist-client calls issued by the last step
    dbops,      \* cache operations performed by the last step
    opres,      \* return value of the engine operation run by the last step
    resp,       \* response envelope the last step returned to the renderer
    handler,    \* the facade handler the last step ran, "none" for any other step
    req,        \* the arguments that handler was invoked with
    raised,     \* the remote calls that rejected in the last step, each with its kind
    recovery,   \* the recovery loop of a fix-broken-links run in progress
    session     \* the token store by its fields, the clock and the refreshes in flight

vars == <<token, cache, history, rlib, rtracks, rname, created, passes,
          calls, dbops, opres, resp, handler, req, raised, recovery, session>>

(***************************************************************************)
(* Bounds of the model.                                                    *)
(***************************************************************************)
MaxHistory == 1
MaxCreated == 1
MaxInflight == 1
MaxTracks == 2

(***************************************************************************)
(* Program constants.                                                      *)
(***************************************************************************)
PLAYLISTS_PER_REQUEST == 50
TRACKS_PAGE_LIMIT == 100
batchSize == 100
BATCH_SIZE == 5

(***************************************************************************)
(* Strings.                                                                *)
(***************************************************************************)
Alphabet ==
    <<" ", "$", "-", "0", "1", "2",
      "A", "B", "C", "D", "E", "F", "G", "H", "I", "J", "K", "L", "M",
      "N", "O", "P", "Q", "R", "S", "T", "U", "V", "W", "X", "Y", "Z",
      "a", "b", "c", "d", "e", "f", "g", "h", "i", "j", "k", "l", "m",
      "n", "o", "p", "q", "r", "s", "t", "u", "v", "w", "x", "y", "z">>

\* a character's place in the byte order ORDER BY compares by
CodeOf == [c \in {Alphabet[i] : i \in 1..Len(Alphabet)} |->
              CHOOSE i \in 1..Len(Alphabet) : Alphabet[i] = c]
Code(c) == CodeOf[c]

RECURSIVE LexLeq(_, _)
LexLeq(a, b) ==
    IF a = <<>> THEN TRUE
    ELSE IF b = <<>> THEN FALSE
    ELSE IF Code(Head(a)) < Code(Head(b)) THEN TRUE
    ELSE IF Code(Head(a)) > Code(Head(b)) THEN FALSE
    ELSE LexLeq(Tail(a), Tail(b))

Range(s) == {s[i] : i \in 1..Len(s)}

RECURSIVE SelectSeq2(_, _)
SeqOfSet(S) == SelectSeq2(S, <<>>)
SelectSeq2(S, acc) ==
    IF S = {} THEN acc
    ELSE LET x == CHOOSE y \in S : TRUE IN SelectSeq2(S \ {x}, Append(acc, x))

(***************************************************************************)
(* The remote service's universe.                                          *)
(***************************************************************************)
RemoteIds == {"p1", "p2", "p3"}
NewIdTable == <<"n1", "n2", "n3">>
NewIds == {NewIdTable[k] : k \in 1..MaxCreated}
\* three playlists of the authenticated user's own, for the end-to-end scenario
ScenarioIds == {"s1", "s2", "s3"}
AllIds == RemoteIds \cup NewIds \cup ScenarioIds

EmptyStr == <<>>
Me == <<"m", "e">>

\* getMe().id: the authenticated user
CurrentUser == Me

\* owner.id of each remote playlist as the remote reports it: p1 and p2 carry the
\* empty id, the one value convertToLocalPlaylist takes for the user's own; p3 and
\* the playlists created in this session carry the id of the authenticated user
ownerId(id) == IF id \in {"p1", "p2"} THEN EmptyStr ELSE Me

\* a playlist track item: track = FALSE is a null payload, uri = <<>> a missing URI,
\* id = FALSE a null catalog id, playable = FALSE an is_playable of false, and an
\* empty name or artist one the payload does not carry
Item(uri, dur) ==
    [track |-> TRUE, uri |-> uri, dur |-> dur, id |-> TRUE, playable |-> TRUE,
     name |-> "Song", artist |-> "Band"]
NullItem ==
    [track |-> FALSE, uri |-> EmptyStr, dur |-> 0, id |-> FALSE, playable |-> TRUE,
     name |-> "", artist |-> ""]
TrackUri(x) == <<"spotify", "track", x>>
LocalUri(x) == <<"spotify", "local", x>>
LongUri(x) == <<"spotify", "track", x, "x">>

tA == Item(TrackUri("A"), 1)
tB == Item(TrackUri("B"), 1)
tC == Item(TrackUri("C"), 1)
tD == Item(TrackUri("D"), 1)
tE == Item(TrackUri("E"), 1)
tF == Item(TrackUri("F"), 1)
tLocal == Item(LocalUri("A"), 1)
tLong == Item(LongUri("A"), 1)
tNoUri == Item(EmptyStr, 1)
tNoId == [Item(TrackUri("C"), 1) EXCEPT !.id = FALSE, !.name = "Rare"]
tUnplayable == [Item(TrackUri("D"), 1) EXCEPT !.playable = FALSE, !.name = "Gone"]
tNoMeta == [Item(EmptyStr, 1) EXCEPT !.artist = ""]

\* the playlists the user follows when the system-level specification starts
InitLibrary == {"p1", "p3"}

\* the remote contents the system-level specification starts from
InitTracks ==
    [id \in AllIds |->
        IF id = "p1" THEN <<tA, tB, tA, tC, tB>>
        ELSE IF id = "p2" THEN <<tB, tNoId, NullItem, tLocal>>
        ELSE <<>>]

InitNames ==
    [id \in AllIds |->
        IF id = "p1" THEN <<"M", "i", "x">>
        ELSE IF id = "p2" THEN <<"R", "o", "c", "k">>
        ELSE IF id = "p3" THEN <<"M", "i", "x">>
        ELSE EmptyStr]

(***************************************************************************)
(* Trace records of one step.                                              *)
(***************************************************************************)
Call(op, id, arg) == [op |-> op, id |-> id, arg |-> arg]
DbOp(op, id) == [op |-> op, id |-> id]
NoRes == [op |-> "none"]
NoReq == [ids |-> <<>>]
NoResp == [op |-> "none", success |-> FALSE]
NoRecovery == [phase |-> "idle"]
NoSession == [tracked |-> FALSE]

\* what a remote call rejects with: a "too many requests" status, or anything else
ErrorKinds == {"rate-limit", "other"}

\* error.message of the error a rejected call throws
ErrorMessage(kind) == IF kind = "rate-limit" THEN "Too Many Requests" ELSE "remote error"

\* the Rate Limit Classifier: whether an error is a rate-limit rejection, and the
\* wait message it words for one that carries no retry-after value
isRateLimit(kind) == kind = "rate-limit"
WaitMessage == "Rate limited. Please wait a few minutes and try again."

Rejection(call, kind) == [op |-> call.op, id |-> call.id, kind |-> kind]

\* the kinds to choose from when the calls in S reject: one choice when none does
KindsFor(S) == IF S = {} THEN {"other"} ELSE ErrorKinds
Fail(op, err) == [op |-> op, success |-> FALSE, error |-> err]
Ok(op, data) == [op |-> op, success |-> TRUE, data |-> data]

(***************************************************************************)
(* SpotifyAuth: the token session.                                         *)
(***************************************************************************)
\* a variant that hands out the stored token without awaiting the refresh
getStoredToken(tok, refreshOk) == IF tok = "none" THEN "null" ELSE "token"

\* getAccessToken: "token" when it returns one, "null" when it returns null, "throw"
\* when the refresh it needed failed
getAccessToken(tok, refreshOk) ==
    IF tok = "none" THEN "null"
    ELSE IF tok = "stale" THEN (IF refreshOk THEN "token" ELSE "throw")
    ELSE "token"

\* the token store after getAccessToken: a refresh re-saves the tokens, a failed
\* refresh clears them
storeAfterGet(tok, refreshOk) ==
    IF tok = "stale" THEN (IF refreshOk THEN "fresh" ELSE "none") ELSE tok

\* whether a refresh succeeds is the remote's choice, and matters only when one is made
RefreshChoices == IF token = "stale" THEN BOOLEAN ELSE {TRUE}

\* the facade's common prologue: the outcome of "ensure we have a valid access token"
Authenticated(refreshOk) == getAccessToken(token, refreshOk) = "token"

AuthError(refreshOk) ==
    IF getAccessToken(token, refreshOk) = "null" THEN "Not authenticated"
    ELSE "refresh failed"

\* the prologue passes: the token store after it
Authenticates(op, args) ==
    /\ handler' = op
    /\ req' = args
    /\ \E refreshOk \in RefreshChoices :
          Authenticated(refreshOk) /\ token' = storeAfterGet(token, refreshOk)

\* a handler invoked without a valid token: the catch block's envelope, nothing else
Unauthenticated(op, args) ==
    \E refreshOk \in RefreshChoices :
    /\ ~Authenticated(refreshOk)
    /\ token' = storeAfterGet(token, refreshOk)
    /\ resp' = Fail(op, AuthError(refreshOk))
    /\ handler' = op
    /\ req' = args
    /\ calls' = <<>>
    /\ dbops' = <<>>
    /\ opres' = NoRes
    /\ raised' = <<>>
    /\ UNCHANGED <<cache, history, rlib, rtracks, rname, created, passes, recovery, session>>

(***************************************************************************)
(* PlaylistDatabase.                                                       *)
(***************************************************************************)
\* INSERT OR REPLACE: the whole row is replaced by the one given
upsertPlaylist(c, row) ==
    [id \in DOMAIN c \cup {row.spotify_id} |-> IF id = row.spotify_id THEN row ELSE c[id]]

\* upsertPlaylist over rows, one after another: the last row given for an id stands
upsertAll(c, rows) ==
    LET ids == {rows[i].spotify_id : i \in 1..Len(rows)}
        last(id) == CHOOSE i \in 1..Len(rows) :
                        /\ rows[i].spotify_id = id
                        /\ \A j \in 1..Len(rows) : rows[j].spotify_id = id => j <= i
    IN [id \in DOMAIN c \cup ids |-> IF id \in ids THEN rows[last(id)] ELSE c[id]]

\* SELECT * FROM playlists ORDER BY name: every order the names allow
RECURSIVE SortedOrders(_, _)
SortedOrders(S, c) ==
    IF S = {} THEN {<<>>}
    ELSE LET mins == {x \in S : \A y \in S : LexLeq(c[x].name, c[y].name)}
         IN UNION {{<<x>> \o q : q \in SortedOrders(S \ {x}, c)} : x \in mins}

getAllPlaylists(c) == SortedOrders(DOMAIN c, c)

deletePlaylist(c, id) == [x \in DOMAIN c \ {id} |-> c[x]]

updateTags(c, id, tags) ==
    [x \in DOMAIN c |-> IF x = id THEN [c[x] EXCEPT !.tags = tags] ELSE c[x]]

logOperation(h, entry) == Append(h, entry)

(***************************************************************************)
(* PlaylistSyncService.                                                    *)
(***************************************************************************)
\* the summary the remote returns for a playlist
RemoteSummary(id) ==
    [id |-> id, name |-> rname[id], owner |-> ownerId(id), total |-> Len(rtracks[id])]

\* convertToLocalPlaylist: the user id compared against is '' on both branches
currentUserId == EmptyStr

convertToLocalPlaylist(p, duration) ==
    [spotify_id |-> p.id,
     name |-> p.name,
     track_count |-> p.total,
     duration_ms |-> duration,
     is_owner |-> (p.owner = currentUserId),
     tags |-> EmptyStr]

\* the pages getUserPlaylists serves for a listing, PLAYLISTS_PER_REQUEST at a time;
\* the loop stops on an empty page or when next is null
NumPages(n, limit) == IF n = 0 THEN 1 ELSE (n + limit - 1) \div limit

\* getUserPlaylists page after page, in the order the remote lists them
Listing(lib) == SeqOfSet(lib)

\* syncAllPlaylists, once every page has arrived: the rows it upserts
ListedRows(lib) ==
    LET ids == Listing(lib)
    IN [i \in 1..Len(ids) |-> convertToLocalPlaylist(RemoteSummary(ids[i]), 0)]

ListingCalls(k) == [i \in 1..k |-> Call("getUserPlaylists", "", <<>>)]

\* getPlaylist(id): the detail pass sums duration_ms over the non-null tracks
TrackDurations(items) ==
    [i \in 1..Len(items) |-> IF items[i].track THEN items[i].dur ELSE 0]

RECURSIVE SumSeq(_)
SumSeq(s) == IF s = <<>> THEN 0 ELSE Head(s) + SumSeq(Tail(s))

DetailRow(id) == convertToLocalPlaylist(RemoteSummary(id), SumSeq(TrackDurations(rtracks[id])))

\* syncPlaylistDetailsBackground selects the cached playlists whose duration_ms is 0
NeedsDetail(c, order) == SelectSeq(order, LAMBDA id : c[id].duration_ms = 0)

NewPass(by, queue) ==
    [by |-> by, queue |-> queue, out |-> {}, total |-> Len(queue), synced |-> 0, failed |-> 0]

FirstN(s, n) == SubSeq(s, 1, IF Len(s) < n THEN Len(s) ELSE n)
DropN(s, n) == SubSeq(s, (IF Len(s) < n THEN Len(s) ELSE n) + 1, Len(s))

RemoveAt(s, i) == SubSeq(s, 1, i - 1) \o SubSeq(s, i + 1, Len(s))

(***************************************************************************)
(* Facade: 'playlist:sync'.                                                *)
(***************************************************************************)
SyncListingFails(failAt, kind) ==
    /\ failAt \in 1..NumPages(Cardinality(rlib), PLAYLISTS_PER_REQUEST)
    /\ calls' = ListingCalls(failAt)
    /\ raised' = <<Rejection(ListingCalls(failAt)[failAt], kind)>>
    /\ dbops' = <<>>
    /\ opres' = NoRes
    /\ resp' = Fail("sync", ErrorMessage(kind))
    /\ UNCHANGED <<cache, history, rlib, rtracks, rname, created, passes, recovery, session>>

\* whether the handler chains syncPlaylistDetailsBackground after the listing pass
ChainsDetailPass(synced) == synced > 0

\* a variant that counts as synced only the rows the cache did not hold yet
SyncResultNewRows(c, rows) ==
    [op |-> "syncAllPlaylists", total |-> Len(rows),
     synced |-> Len(SelectSeq(rows, LAMBDA r : r.spotify_id \notin DOMAIN c))]

\* the counts syncAllPlaylists returns
SyncResult(c, rows) == [op |-> "syncAllPlaylists", total |-> Len(rows), synced |-> Len(rows)]

\* syncAllPlaylists with every page served: the rows upserted, the cache and the counts
syncAllPlaylists(c, lib) ==
    [rows |-> ListedRows(lib), cache |-> upsertAll(c, ListedRows(lib)),
     result |-> SyncResult(c, ListedRows(lib))]

SyncListingRuns ==
    LET rows == syncAllPlaylists(cache, rlib).rows
        c2 == syncAllPlaylists(cache, rlib).cache
        result == syncAllPlaylists(cache, rlib).result
    IN /\ calls' = ListingCalls(NumPages(Len(rows), PLAYLISTS_PER_REQUEST))
       /\ raised' = <<>>
       /\ cache' = c2
       /\ opres' = result
       /\ resp' = Ok("sync", [total |-> result.total, synced |-> result.synced])
       /\ IF ChainsDetailPass(result.synced)
          THEN /\ Len(passes) < MaxInflight
               /\ \E order \in getAllPlaylists(c2) :
                      passes' = Append(passes, NewPass("sync", NeedsDetail(c2, order)))
               /\ dbops' = [i \in 1..Len(rows) |-> DbOp("upsert", rows[i].spotify_id)]
                             \o <<DbOp("getAll", "")>>
          ELSE /\ passes' = passes
               /\ dbops' = [i \in 1..Len(rows) |-> DbOp("upsert", rows[i].spotify_id)]
       /\ UNCHANGED <<history, rlib, rtracks, rname, created, recovery, session>>

HandleSync ==
    \/ Unauthenticated("sync", NoReq)
    \/ /\ Authenticates("sync", NoReq)
       /\ \/ \E failAt \in 1..NumPages(Cardinality(rlib), PLAYLISTS_PER_REQUEST) :
             \E kind \in ErrorKinds : SyncListingFails(failAt, kind)
          \/ SyncListingRuns

(***************************************************************************)
(* Facade: 'playlist:sync-details-background', and the steps of a pass.    *)
(***************************************************************************)
HandleSyncDetails ==
    \/ Unauthenticated("sync-details", NoReq)
    \/ /\ Authenticates("sync-details", NoReq)
       /\ Len(passes) < MaxInflight
       /\ \E order \in getAllPlaylists(cache) :
              passes' = Append(passes, NewPass("sync-details", NeedsDetail(cache, order)))
       /\ calls' = <<>>
       /\ raised' = <<>>
       /\ dbops' = <<DbOp("getAll", "")>>
       /\ opres' = NoRes
       /\ resp' = NoResp
       /\ UNCHANGED <<cache, history, rlib, rtracks, rname, created, recovery, session>>

\* a variant that issues the next batch while fetches of the previous one are outstanding
DetailBatchStartEager(i) ==
    /\ i \in 1..Len(passes)
    /\ passes[i].queue # <<>>
    /\ LET batch == FirstN(passes[i].queue, BATCH_SIZE)
       IN /\ passes' = [passes EXCEPT ![i].out = @ \cup Range(batch),
                                      ![i].queue = DropN(passes[i].queue, BATCH_SIZE)]
          /\ calls' = [k \in 1..Len(batch) |-> Call("getPlaylist", batch[k], <<>>)]
    /\ raised' = <<>>
    /\ dbops' = <<>>
    /\ opres' = NoRes
    /\ resp' = NoResp
    /\ handler' = "none"
    /\ req' = NoReq
    /\ UNCHANGED <<token, cache, history, rlib, rtracks, rname, created, recovery, session>>

\* the next batch of a pass is issued once the previous one has settled
DetailBatchStart(i) ==
    /\ i \in 1..Len(passes)
    /\ passes[i].out = {}
    /\ passes[i].queue # <<>>
    /\ LET batch == FirstN(passes[i].queue, BATCH_SIZE)
       IN /\ passes' = [passes EXCEPT ![i].out = Range(batch),
                                      ![i].queue = DropN(passes[i].queue, BATCH_SIZE)]
          /\ calls' = [k \in 1..Len(batch) |-> Call("getPlaylist", batch[k], <<>>)]
    /\ raised' = <<>>
    /\ dbops' = <<>>
    /\ opres' = NoRes
    /\ resp' = NoResp
    /\ handler' = "none"
    /\ req' = NoReq
    /\ UNCHANGED <<token, cache, history, rlib, rtracks, rname, created, recovery, session>>

\* a variant in which a failed fetch ends the pass: the playlists not yet fetched are dropped
DetailFetchDoneAborts(i, id, ok) ==
    /\ i \in 1..Len(passes)
    /\ id \in passes[i].out
    /\ IF ok
       THEN /\ cache' = upsertPlaylist(cache, DetailRow(id))
            /\ dbops' = <<DbOp("upsert", id)>>
            /\ raised' = <<>>
            /\ passes' = [passes EXCEPT ![i].out = @ \ {id}, ![i].synced = @ + 1]
       ELSE /\ cache' = cache
            /\ dbops' = <<>>
            /\ \E kind \in ErrorKinds :
                   raised' = <<Rejection(Call("getPlaylist", id, <<>>), kind)>>
            /\ passes' = [passes EXCEPT ![i].out = @ \ {id}, ![i].failed = @ + 1,
                                        ![i].queue = <<>>]
    /\ calls' = <<>>
    /\ opres' = NoRes
    /\ resp' = NoResp
    /\ handler' = "none"
    /\ req' = NoReq
    /\ UNCHANGED <<token, history, rlib, rtracks, rname, created, recovery, session>>

\* one playlist's fetch settles: its row is re-upserted, or the failure is counted
DetailFetchDone(i, id, ok) ==
    /\ i \in 1..Len(passes)
    /\ id \in passes[i].out
    /\ IF ok
       THEN /\ cache' = upsertPlaylist(cache, DetailRow(id))
            /\ dbops' = <<DbOp("upsert", id)>>
            /\ raised' = <<>>
            /\ passes' = [passes EXCEPT ![i].out = @ \ {id}, ![i].synced = @ + 1]
       ELSE /\ cache' = cache
            /\ dbops' = <<>>
            /\ \E kind \in ErrorKinds :
                   raised' = <<Rejection(Call("getPlaylist", id, <<>>), kind)>>
            /\ passes' = [passes EXCEPT ![i].out = @ \ {id}, ![i].failed = @ + 1]
    /\ calls' = <<>>
    /\ opres' = NoRes
    /\ resp' = NoResp
    /\ handler' = "none"
    /\ req' = NoReq
    /\ UNCHANGED <<token, history, rlib, rtracks, rname, created, recovery, session>>

DetailFinish(i) ==
    /\ i \in 1..Len(passes)
    /\ passes[i].out = {}
    /\ passes[i].queue = <<>>
    /\ passes' = RemoveAt(passes, i)
    /\ opres' = [op |-> "syncPlaylistDetailsBackground", total |-> passes[i].total,
                 synced |-> passes[i].synced, failed |-> passes[i].failed]
    /\ resp' = IF passes[i].by = "sync-details"
               THEN Ok("sync-details", [total |-> passes[i].total,
                                        synced |-> passes[i].synced,
                                        failed |-> passes[i].failed])
               ELSE NoResp
    /\ handler' = "none"
    /\ req' = NoReq
    /\ calls' = <<>>
    /\ raised' = <<>>
    /\ dbops' = <<>>
    /\ UNCHANGED <<token, cache, history, rlib, rtracks, rname, created, recovery, session>>

(***************************************************************************)
(* PlaylistOperations.deletePlaylists.                                     *)
(***************************************************************************)
Outcome(res, c, unfollowed, cs, rs, ds, log) ==
    [res |-> res, cache |-> c, unfollowed |-> unfollowed, calls |-> cs, raised |-> rs,
     dbops |-> ds, log |-> log]

\* a variant of the loop that unfollows and leaves the cache rows where they are
keepRows(c, ids) == c

RECURSIVE deleteRows(_, _)
deleteRows(c, ids) ==
    IF ids = <<>> THEN c ELSE deleteRows(deletePlaylist(c, Head(ids)), Tail(ids))

\* a variant that reports the whole batch once one of its rows is not owner-flagged
NotOwnedWholeBatch(c, toDelete) ==
    IF \E i \in 1..Len(toDelete) : ~c[toDelete[i]].is_owner THEN toDelete ELSE <<>>

\* the ownership check: the cached rows of the batch that are not owner-flagged
NotOwned(c, toDelete) == SelectSeq(toDelete, LAMBDA p : ~c[p].is_owner)

\* the sets of playlists whose unfollow may reject: any, once the loop is reached
UnfollowFailures(c, playlistIds) ==
    LET hit == SelectSeq(playlistIds, LAMBDA p : p \in DOMAIN c)
    IN IF Len(playlistIds) = 0 \/ Len(NotOwned(c, hit)) > 0 THEN {{}}
       ELSE SUBSET Range(hit)

\* a variant whose loop ends with the first unfollow that rejects
AttemptedUntilFailure(toDelete, failing) ==
    IF \E i \in 1..Len(toDelete) : toDelete[i] \in failing
    THEN SubSeq(toDelete, 1, CHOOSE i \in 1..Len(toDelete) :
                                /\ toDelete[i] \in failing
                                /\ \A j \in 1..(i - 1) : toDelete[j] \notin failing)
    ELSE toDelete

\* the rows the loop reaches: the catch block is inside the loop, so all of them
Attempted(toDelete, failing) == toDelete

\* a variant that records every requested id as affected
DeleteEntryRequested(playlistIds, deleted, failed) ==
    [type |-> "delete", affected |-> playlistIds,
     details |-> [total |-> Len(playlistIds), deleted |-> Len(deleted),
                  failed |-> Len(failed)],
     can_undo |-> FALSE]

\* the history entry of a delete: playlists_affected is the deleted array
DeleteEntry(playlistIds, deleted, failed) ==
    [type |-> "delete", affected |-> deleted,
     details |-> [total |-> Len(playlistIds), deleted |-> Len(deleted),
                  failed |-> Len(failed)],
     can_undo |-> FALSE]

\* playlistIds: the requested ids; order: the rows as getAllPlaylists returned them;
\* failing: the playlists whose unfollowPlaylist call rejects, with an error of that kind
deletePlaylists(c, playlistIds, order, failing, kind) ==
    LET toDelete == SelectSeq(order, LAMBDA p : p \in Range(playlistIds))
        notOwned == NotOwned(c, toDelete)
        reached == Attempted(toDelete, failing)
        deleted == SelectSeq(reached, LAMBDA p : p \notin failing)
        failed == SelectSeq(reached, LAMBDA p : p \in failing)
    IN IF Len(playlistIds) = 0
       THEN Outcome([op |-> "deletePlaylists", success |-> FALSE, deleted |-> 0,
                     failed |-> <<>>, error |-> "No playlists selected"],
                    c, {}, <<>>, <<>>, <<>>, <<>>)
       ELSE IF Len(notOwned) > 0
       THEN Outcome([op |-> "deletePlaylists", success |-> FALSE, deleted |-> 0,
                     failed |-> notOwned, error |-> "Cannot delete playlists you don't own"],
                    c, {}, <<>>, <<>>, <<DbOp("getAll", "")>>, <<>>)
       ELSE Outcome([op |-> "deletePlaylists", success |-> Len(failed) = 0,
                     deleted |-> Len(deleted), failed |-> failed,
                     error |-> IF Len(failed) > 0 THEN "Failed to delete" ELSE ""],
                    deleteRows(c, deleted),
                    Range(deleted),
                    [i \in 1..Len(reached) |-> Call("unfollowPlaylist", reached[i], <<>>)],
                    [i \in 1..Len(failed) |->
                        Rejection(Call("unfollowPlaylist", failed[i], <<>>), kind)],
                    <<DbOp("getAll", "")>>
                        \o [i \in 1..Len(deleted) |-> DbOp("delete", deleted[i])]
                        \o <<DbOp("log", "")>>,
                    <<DeleteEntry(playlistIds, deleted, failed)>>)

(***************************************************************************)
(* Facade: 'playlist:delete'.                                              *)
(***************************************************************************)
HandleDelete(playlistIds) ==
    \/ Unauthenticated("delete", [ids |-> playlistIds])
    \/ /\ Authenticates("delete", [ids |-> playlistIds])
       /\ Len(history) < MaxHistory
       /\ \E order \in getAllPlaylists(cache) :
          \E failing \in UnfollowFailures(cache, playlistIds) :
          \E kind \in KindsFor(failing) :
            LET o == deletePlaylists(cache, playlistIds, order, failing, kind)
            IN /\ cache' = o.cache
               /\ rlib' = rlib \ o.unfollowed
               /\ history' = history \o o.log
               /\ calls' = o.calls
               /\ raised' = o.raised
               /\ dbops' = o.dbops
               /\ opres' = o.res
               /\ resp' = IF o.res.success
                          THEN Ok("delete", [deleted |-> o.res.deleted, failed |-> o.res.failed])
                          ELSE Fail("delete", o.res.error)
       /\ UNCHANGED <<rtracks, rname, created, passes, recovery, session>>

(***************************************************************************)
(* Facade: 'playlist:update-tags'.                                         *)
(***************************************************************************)
IsSpace(ch) == ch = " "

\* str.split(/\s+/).filter(t => t.length > 0): the non-empty words of a string
RECURSIVE Words(_, _, _)
Words(str, cur, acc) ==
    IF str = <<>> THEN (IF cur = <<>> THEN acc ELSE Append(acc, cur))
    ELSE IF IsSpace(Head(str))
         THEN Words(Tail(str), <<>>, IF cur = <<>> THEN acc ELSE Append(acc, cur))
         ELSE Words(Tail(str), Append(cur, Head(str)), acc)

SplitTags(str) == Words(str, <<>>, <<>>)

\* [...new Set(list)]: first occurrences, in order
RECURSIVE Unique(_, _)
Unique(list, acc) ==
    IF list = <<>> THEN acc
    ELSE Unique(Tail(list), IF Head(list) \in Range(acc) THEN acc ELSE Append(acc, Head(list)))

\* list.join(' ')
RECURSIVE Join(_)
Join(list) ==
    IF list = <<>> THEN <<>>
    ELSE IF Len(list) = 1 THEN Head(list)
    ELSE Head(list) \o <<" ">> \o Join(Tail(list))

NewTags(old, tags, append) ==
    IF append /\ old # EmptyStr
    THEN Join(Unique(SplitTags(old) \o SplitTags(tags), <<>>))
    ELSE tags

RECURSIVE updateTagsAll(_, _, _, _)
updateTagsAll(c, ids, tags, append) ==
    IF ids = <<>> THEN c
    ELSE IF Head(ids) \notin DOMAIN c THEN updateTagsAll(c, Tail(ids), tags, append)
    ELSE updateTagsAll(updateTags(c, Head(ids), NewTags(c[Head(ids)].tags, tags, append)),
                       Tail(ids), tags, append)

HandleUpdateTags(playlistIds, tags, append) ==
    LET hit == SelectSeq(playlistIds, LAMBDA p : p \in DOMAIN cache)
    IN /\ cache' = updateTagsAll(cache, playlistIds, tags, append)
       /\ dbops' = [i \in 1..Len(playlistIds) |-> DbOp("getById", playlistIds[i])]
                     \o [i \in 1..Len(hit) |-> DbOp("updateTags", hit[i])]
       /\ calls' = <<>>
       /\ raised' = <<>>
       /\ opres' = NoRes
       /\ resp' = Ok("update-tags", [updated |-> Len(hit)])
       /\ handler' = "update-tags"
       /\ req' = [ids |-> playlistIds, tags |-> tags, append |-> append]
       /\ UNCHANGED <<token, history, rlib, rtracks, rname, created, passes, recovery, session>>

(***************************************************************************)
(* PlaylistOperations: what merge and remove-duplicates share.             *)
(***************************************************************************)
\* a variant that drops the segment count: a prefix test alone
IsTrackPrefixed(uri) == uri # EmptyStr /\ Len(uri) >= 3 /\ uri[1] = "spotify" /\ uri[2] = "track"

\* uri && uri.startsWith('spotify:track:') && uri.split(':').length === 3
IsValidTrackUri(uri) ==
    /\ uri # EmptyStr
    /\ Len(uri) >= 3 /\ uri[1] = "spotify" /\ uri[2] = "track"
    /\ Len(uri) = 3

validTrackUris(uris) == SelectSeq(uris, IsValidTrackUri)

\* getPlaylistTracks(id, {offset, limit}) until next is null: the calls it takes
TrackPageCalls(id, n) ==
    [k \in 1..NumPages(n, TRACKS_PAGE_LIMIT) |-> Call("getPlaylistTracks", id, <<>>)]

\* the k-th page of a playlist's items
TrackPage(items, k) ==
    SubSeq(items, (k - 1) * TRACKS_PAGE_LIMIT + 1,
           IF k * TRACKS_PAGE_LIMIT < Len(items) THEN k * TRACKS_PAGE_LIMIT ELSE Len(items))

RECURSIVE PagesFrom(_, _)
PagesFrom(items, k) ==
    IF k > NumPages(Len(items), TRACKS_PAGE_LIMIT) THEN <<>>
    ELSE TrackPage(items, k) \o PagesFrom(items, k + 1)

allTracks(items) == PagesFrom(items, 1)

\* an item with a null track or no URI is skipped
Skipped(item) == ~item.track \/ item.uri = EmptyStr

\* a variant whose seen-set only remembers the URI pushed last
RECURSIVE CollectAdjacent(_, _, _)
CollectAdjacent(items, removeDuplicates, acc) ==
    IF items = <<>> THEN acc
    ELSE LET item == Head(items)
         IN IF ~item.track \/ item.uri = EmptyStr
            THEN CollectAdjacent(Tail(items), removeDuplicates, acc)
            ELSE IF removeDuplicates /\ acc # <<>> /\ item.uri = acc[Len(acc)]
                 THEN CollectAdjacent(Tail(items), removeDuplicates, acc)
                 ELSE CollectAdjacent(Tail(items), removeDuplicates, Append(acc, item.uri))

\* the collecting loop: an item that is not skipped has its URI pushed; with
\* removeDuplicates only when the seen-set does not hold the URI yet, that is when
\* neither acc nor an earlier item of the loop carries it
Collect(items, removeDuplicates, acc) ==
    LET kept == SelectSeq(items, LAMBDA item : ~Skipped(item))
        pushed == SelectSeq([i \in 1..Len(kept) |-> i],
                            LAMBDA i : removeDuplicates =>
                                          /\ kept[i].uri \notin Range(acc)
                                          /\ \A j \in 1..(i - 1) : kept[j].uri # kept[i].uri)
    IN acc \o [k \in 1..Len(pushed) |-> kept[pushed[k]].uri]

\* the sources' items one after the other, in the order of playlistIds
RECURSIVE SourceItems(_, _)
SourceItems(tr, playlistIds) ==
    IF playlistIds = <<>> THEN <<>>
    ELSE allTracks(tr[Head(playlistIds)]) \o SourceItems(tr, Tail(playlistIds))

RECURSIVE SourceCalls(_, _)
SourceCalls(tr, playlistIds) ==
    IF playlistIds = <<>> THEN <<>>
    ELSE TrackPageCalls(Head(playlistIds), Len(tr[Head(playlistIds)]))
            \o SourceCalls(tr, Tail(playlistIds))

\* Math.ceil(n / batchSize) batches, each validTrackUris.slice(start, end)
NumBatches(n) == (n + batchSize - 1) \div batchSize

Batch(uris, i) ==
    SubSeq(uris, i * batchSize + 1,
           IF i * batchSize + batchSize < Len(uris) THEN i * batchSize + batchSize ELSE Len(uris))

\* a variant that appends every URI in one call
AddCallsAtOnce(id, uris) ==
    IF uris = <<>> THEN <<>> ELSE <<Call("addTracksToPlaylist", id, uris)>>

AddCalls(id, uris) ==
    [k \in 1..NumBatches(Len(uris)) |-> Call("addTracksToPlaylist", id, Batch(uris, k - 1))]

\* the URIs the add-tracks calls of a call sequence carry, in order
RECURSIVE Added(_)
Added(cs) ==
    IF cs = <<>> THEN <<>>
    ELSE (IF Head(cs).op = "addTracksToPlaylist" THEN Head(cs).arg ELSE <<>>) \o Added(Tail(cs))

HasCreate(cs) == \E i \in 1..Len(cs) : cs[i].op = "createPlaylist"

\* the calls that resolved: with failAt = 0 all of them, else those before the failAt-th
Resolved(cs, failAt) == IF failAt = 0 THEN cs ELSE SubSeq(cs, 1, failAt - 1)
Issued(cs, failAt) == IF failAt = 0 THEN cs ELSE SubSeq(cs, 1, failAt)

NextNewId == NewIdTable[created + 1]

\* str.trim() is empty
IsBlank(str) == \A i \in 1..Len(str) : IsSpace(str[i])

\* what the resolved calls of a creating operation leave on the remote side
RemoteAfter(cs, newName) ==
    /\ created' = IF HasCreate(cs) THEN created + 1 ELSE created
    /\ rname' = IF HasCreate(cs) THEN [rname EXCEPT ![NextNewId] = newName] ELSE rname
    /\ rtracks' = IF HasCreate(cs)
                  THEN [rtracks EXCEPT ![NextNewId] =
                           [i \in 1..Len(Added(cs)) |-> Item(Added(cs)[i], 1)]]
                  ELSE rtracks

(***************************************************************************)
(* PlaylistOperations.mergePlaylists.                                      *)
(***************************************************************************)
MergeUris(tr, playlistIds, removeDuplicates) ==
    validTrackUris(Collect(SourceItems(tr, playlistIds), removeDuplicates, <<>>))

\* every remote call a merge issues before it deletes its sources, none failing
MergePlan(tr, playlistIds, targetName, removeDuplicates, newId) ==
    LET uris == MergeUris(tr, playlistIds, removeDuplicates)
    IN SourceCalls(tr, playlistIds)
         \o (IF Len(uris) = 0 THEN <<>>
             ELSE <<Call("createPlaylist", newId, targetName)>> \o AddCalls(newId, uris))

MergeEntry(playlistIds, newId, targetName, n, removeDuplicates, deleteSource) ==
    [type |-> "merge", affected |-> Append(playlistIds, newId),
     details |-> [target_playlist |-> newId, target_name |-> targetName, track_count |-> n,
                  remove_duplicates |-> removeDuplicates, delete_source |-> deleteSource],
     can_undo |-> FALSE]

MergeFail(err) == [op |-> "mergePlaylists", success |-> FALSE, error |-> err]

\* the two checks before the try block
MergeRejects(playlistIds, targetName) ==
    /\ Len(playlistIds) < 2 \/ IsBlank(targetName)
    /\ opres' = MergeFail(IF Len(playlistIds) < 2 THEN "Select at least 2 playlists to merge"
                          ELSE "Target playlist name is required")
    /\ calls' = <<>>
    /\ raised' = <<>>
    /\ dbops' = <<>>
    /\ UNCHANGED <<cache, history, rlib, rtracks, rname, created>>

\* a remote call rejects: the catch block returns the failure with error.message
MergeThrows(playlistIds, targetName, removeDuplicates) ==
    /\ Len(playlistIds) >= 2 /\ ~IsBlank(targetName)
    /\ created < MaxCreated
    /\ LET plan == MergePlan(rtracks, playlistIds, targetName, removeDuplicates, NextNewId)
       IN \E failAt \in 1..Len(plan), kind \in ErrorKinds :
            /\ opres' = MergeFail(ErrorMessage(kind))
            /\ calls' = Issued(plan, failAt)
            /\ raised' = <<Rejection(plan[failAt], kind)>>
            /\ dbops' = <<>>
            /\ RemoteAfter(Resolved(plan, failAt), targetName)
            /\ rlib' = IF HasCreate(Resolved(plan, failAt)) THEN rlib \cup {NextNewId}
                       ELSE rlib
            /\ UNCHANGED <<cache, history>>

\* no call rejects, and no valid URI is left: nothing is created
MergeEmpty(playlistIds, targetName, removeDuplicates) ==
    /\ Len(playlistIds) >= 2 /\ ~IsBlank(targetName)
    /\ Len(MergeUris(rtracks, playlistIds, removeDuplicates)) = 0
    /\ opres' = MergeFail("No valid tracks to merge (all tracks were unlinked or invalid)")
    /\ calls' = SourceCalls(rtracks, playlistIds)
    /\ raised' = <<>>
    /\ dbops' = <<>>
    /\ UNCHANGED <<cache, history, rlib, rtracks, rname, created>>

\* a variant in which a failed deletion of the sources fails the merge
MergeSuccessIfDeleted(newId, n, deleteOk) ==
    IF deleteOk
    THEN [op |-> "mergePlaylists", success |-> TRUE, playlistId |-> newId, trackCount |-> n]
    ELSE [op |-> "mergePlaylists", success |-> FALSE,
          error |-> "Some source playlists failed to delete"]

\* the result once every batch is added: deleteResult.success is only logged
MergeSuccess(newId, n, deleteOk) ==
    [op |-> "mergePlaylists", success |-> TRUE, playlistId |-> newId, trackCount |-> n]

\* the merge goes through; with deleteSource the sources are then deleted
MergeRuns(playlistIds, targetName, removeDuplicates, deleteSource) ==
    LET uris == MergeUris(rtracks, playlistIds, removeDuplicates)
        newId == NextNewId
        plan == MergePlan(rtracks, playlistIds, targetName, removeDuplicates, newId)
        entry == MergeEntry(playlistIds, newId, targetName, Len(uris), removeDuplicates,
                            deleteSource)
    IN /\ Len(playlistIds) >= 2 /\ ~IsBlank(targetName)
       /\ Len(uris) > 0
       /\ created < MaxCreated
       /\ RemoteAfter(plan, targetName)
       /\ IF deleteSource
          THEN \E order \in getAllPlaylists(cache) :
               \E failing \in UnfollowFailures(cache, playlistIds) :
               \E kind \in KindsFor(failing) :
                 LET o == deletePlaylists(cache, playlistIds, order, failing, kind)
                 IN /\ cache' = o.cache
                    /\ rlib' = (rlib \cup {newId}) \ o.unfollowed
                    /\ history' = (history \o o.log) \o <<entry>>
                    /\ calls' = plan \o o.calls
                    /\ raised' = o.raised
                    /\ dbops' = o.dbops \o <<DbOp("log", "")>>
                    /\ opres' = MergeSuccess(newId, Len(uris), o.res.success)
          ELSE /\ cache' = cache
               /\ rlib' = rlib \cup {newId}
               /\ history' = Append(history, entry)
               /\ calls' = plan
               /\ raised' = <<>>
               /\ dbops' = <<DbOp("log", "")>>
               /\ opres' = MergeSuccess(newId, Len(uris), TRUE)

mergePlaylists(playlistIds, targetName, removeDuplicates, deleteSource) ==
    \/ MergeRejects(playlistIds, targetName)
    \/ MergeThrows(playlistIds, targetName, removeDuplicates)
    \/ MergeEmpty(playlistIds, targetName, removeDuplicates)
    \/ MergeRuns(playlistIds, targetName, removeDuplicates, deleteSource)

(***************************************************************************)
(* Facade: 'playlist:merge'.                                               *)
(***************************************************************************)
MergeReq(playlistIds, targetName, removeDuplicates, deleteSource) ==
    [ids |-> playlistIds, removeDuplicates |-> removeDuplicates, targetName |-> targetName,
     deleteSource |-> deleteSource]

HandleMerge(playlistIds, targetName, removeDuplicates, deleteSource) ==
    \/ Unauthenticated("merge", MergeReq(playlistIds, targetName, removeDuplicates, deleteSource))
    \/ /\ Authenticates("merge", MergeReq(playlistIds, targetName, removeDuplicates, deleteSource))
       /\ Len(history) < MaxHistory
       /\ mergePlaylists(playlistIds, targetName, removeDuplicates, deleteSource)
       /\ resp' = IF opres'.success
                  THEN Ok("merge", [playlistId |-> opres'.playlistId,
                                    trackCount |-> opres'.trackCount])
                  ELSE Fail("merge", opres'.error)
       /\ UNCHANGED <<passes, recovery, session>>

(***************************************************************************)
(* PlaylistOperations.removeDuplicates.                                    *)
(***************************************************************************)
NoDupSuffix ==
    <<" ", "-", " ", "N", "o", " ", "D", "u", "p", "l", "i", "c", "a", "t", "e", "s">>

Kept(items) == SelectSeq(items, LAMBDA it : ~Skipped(it))

\* a variant that keeps the last occurrence of each URI instead of the first
RECURSIVE KeepLast(_)
KeepLast(items) ==
    IF items = <<>> THEN <<>>
    ELSE IF ~Head(items).track \/ Head(items).uri = EmptyStr THEN KeepLast(Tail(items))
    ELSE IF \E i \in 1..Len(Tail(items)) :
                Tail(items)[i].track /\ Tail(items)[i].uri = Head(items).uri
         THEN KeepLast(Tail(items))
         ELSE <<Head(items).uri>> \o KeepLast(Tail(items))

uniqueUris(items) == Collect(items, TRUE, <<>>)
duplicateCount(items) == Len(Kept(items)) - Len(uniqueUris(items))

\* the calls that read the playlist: getPlaylist, then every track page
ReadCalls(id, n) == <<Call("getPlaylist", id, <<>>)>> \o TrackPageCalls(id, n)

\* a variant that appends the unique tracks to the playlist it read
RemoveDuplicatesPlanInPlace(tr, nm, playlistId, newId) ==
    LET items == allTracks(tr[playlistId])
        uris == validTrackUris(uniqueUris(items))
    IN ReadCalls(playlistId, Len(tr[playlistId]))
         \o (IF duplicateCount(items) = 0 \/ Len(uris) = 0 THEN <<>>
             ELSE <<Call("createPlaylist", newId, nm[playlistId] \o NoDupSuffix)>>
                    \o AddCalls(playlistId, uris))

\* the calls of a run: the reads, then the new playlist and its batches
RemoveDuplicatesPlan(tr, nm, playlistId, newId) ==
    LET items == allTracks(tr[playlistId])
        uris == validTrackUris(uniqueUris(items))
    IN ReadCalls(playlistId, Len(tr[playlistId]))
         \o (IF duplicateCount(items) = 0 \/ Len(uris) = 0 THEN <<>>
             ELSE <<Call("createPlaylist", newId, nm[playlistId] \o NoDupSuffix)>>
                    \o AddCalls(newId, uris))

RemoveDuplicatesFail(err) == [op |-> "removeDuplicates", success |-> FALSE, error |-> err]

RemoveDuplicatesThrows(playlistId) ==
    /\ created < MaxCreated
    /\ LET plan == RemoveDuplicatesPlan(rtracks, rname, playlistId, NextNewId)
       IN \E failAt \in 1..Len(plan), kind \in ErrorKinds :
            /\ opres' = RemoveDuplicatesFail(ErrorMessage(kind))
            /\ calls' = Issued(plan, failAt)
            /\ raised' = <<Rejection(plan[failAt], kind)>>
            /\ dbops' = <<>>
            /\ RemoteAfter(Resolved(plan, failAt), rname[playlistId] \o NoDupSuffix)
            /\ rlib' = IF HasCreate(Resolved(plan, failAt)) THEN rlib \cup {NextNewId}
                       ELSE rlib
            /\ UNCHANGED <<cache, history>>

RemoveDuplicatesNothing(playlistId) ==
    LET items == allTracks(rtracks[playlistId])
    IN /\ duplicateCount(items) = 0 \/ Len(validTrackUris(uniqueUris(items))) = 0
       /\ opres' = RemoveDuplicatesFail(
                      IF duplicateCount(items) = 0
                      THEN "No duplicate tracks found in this playlist"
                      ELSE "No valid tracks to create playlist")
       /\ calls' = ReadCalls(playlistId, Len(rtracks[playlistId]))
       /\ raised' = <<>>
       /\ dbops' = <<>>
       /\ UNCHANGED <<cache, history, rlib, rtracks, rname, created>>

RemoveDuplicatesRuns(playlistId) ==
    LET items == allTracks(rtracks[playlistId])
        uris == validTrackUris(uniqueUris(items))
        newId == NextNewId
        plan == RemoveDuplicatesPlan(rtracks, rname, playlistId, newId)
    IN /\ duplicateCount(items) > 0
       /\ Len(uris) > 0
       /\ created < MaxCreated
       /\ RemoteAfter(plan, rname[playlistId] \o NoDupSuffix)
       /\ rlib' = rlib \cup {newId}
       /\ calls' = plan
       /\ raised' = <<>>
       /\ dbops' = <<DbOp("log", "")>>
       /\ history' = Append(history,
                        [type |-> "remove_duplicates", affected |-> <<playlistId, newId>>,
                         details |-> [original_count |-> Len(items),
                                      unique_count |-> Len(uris),
                                      duplicates_removed |-> duplicateCount(items)],
                         can_undo |-> FALSE])
       /\ opres' = [op |-> "removeDuplicates", success |-> TRUE, playlistId |-> newId,
                    originalCount |-> Len(items), uniqueCount |-> Len(uris),
                    duplicatesRemoved |-> duplicateCount(items)]
       /\ cache' = cache

removeDuplicates(playlistId) ==
    \/ RemoveDuplicatesThrows(playlistId)
    \/ RemoveDuplicatesNothing(playlistId)
    \/ RemoveDuplicatesRuns(playlistId)

\* Facade: 'playlist:remove-duplicates'
HandleRemoveDuplicates(playlistId) ==
    \/ Unauthenticated("remove-duplicates", [ids |-> <<playlistId>>])
    \/ /\ Authenticates("remove-duplicates", [ids |-> <<playlistId>>])
       /\ Len(history) < MaxHistory
       /\ removeDuplicates(playlistId)
       /\ resp' = IF opres'.success
                  THEN Ok("remove-duplicates",
                          [playlistId |-> opres'.playlistId,
                           originalCount |-> opres'.originalCount,
                           uniqueCount |-> opres'.uniqueCount,
                           duplicatesRemoved |-> opres'.duplicatesRemoved])
                  ELSE Fail("remove-duplicates", opres'.error)
       /\ UNCHANGED <<passes, recovery, session>>

(***************************************************************************)
(* PlaylistOperations.fixBrokenTracks.                                     *)
(***************************************************************************)
RecoveredSuffix == <<" ", "-", " ", "R", "e", "c", "o", "v", "e", "r", "e", "d">>

\* a variant that leaves out the is_playable test
IsUnlinkedPlayableIgnored(item) == ~item.track \/ ~item.id \/ item.uri = EmptyStr

\* the four-way test of an unlinked track
IsUnlinked(item) == ~item.track \/ ~item.id \/ ~item.playable \/ item.uri = EmptyStr

unlinkedTracks(items) == SelectSeq(items, IsUnlinked)

\* item.track?.name || 'Unknown', and the artist likewise
trackName(item) == IF ~item.track \/ item.name = "" THEN "Unknown" ELSE item.name
artistName(item) == IF ~item.track \/ item.artist = "" THEN "Unknown" ELSE item.artist

Insufficient(item) == trackName(item) = "Unknown" \/ artistName(item) = "Unknown"

\* the catalogue searchTracks answers from: candidates with their popularity
Catalogue(name, artist) ==
    IF name = "Rare" /\ artist = "Band"
    THEN <<[uri |-> TrackUri("E"), popularity |-> 1], [uri |-> TrackUri("F"), popularity |-> 2]>>
    ELSE IF name = "Song" /\ artist = "Band"
    THEN <<[uri |-> TrackUri("A"), popularity |-> 1]>>
    ELSE <<>>

\* results.sort((a, b) => b.popularity - a.popularity)[0]: the first of the most popular
bestMatch(results) ==
    LET top == CHOOSE i \in 1..Len(results) :
                 /\ \A j \in 1..Len(results) : results[j].popularity <= results[i].popularity
                 /\ \A j \in 1..(i - 1) : results[j].popularity < results[i].popularity
    IN results[top]

\* the outcome of one unlinked track: searchErr says whether its search call rejects
Recovery(item, searchErr) ==
    IF Insufficient(item) THEN "insufficient"
    ELSE IF searchErr THEN "error"
    ELSE IF Len(Catalogue(trackName(item), artistName(item))) > 0 THEN "recovered"
    ELSE "nomatch"

\* unlinked: the unlinked items; errs: the indices whose search rejects
recoveredUris(unlinked, errs) ==
    LET idx == SelectSeq([i \in 1..Len(unlinked) |-> i],
                         LAMBDA i : Recovery(unlinked[i], i \in errs) = "recovered")
    IN [k \in 1..Len(idx) |->
          bestMatch(Catalogue(trackName(unlinked[idx[k]]), artistName(unlinked[idx[k]]))).uri]

failedTracks(unlinked, errs) ==
    SelectSeq([i \in 1..Len(unlinked) |-> i],
              LAMBDA i : Recovery(unlinked[i], i \in errs) # "recovered")

\* searchTracks(`track:${trackName} artist:${artistName}`), one call per unlinked track
\* with a name and an artist
SearchCalls(unlinked) ==
    LET idx == SelectSeq([i \in 1..Len(unlinked) |-> i], LAMBDA i : ~Insufficient(unlinked[i]))
    IN [k \in 1..Len(idx) |->
          Call("searchTracks", "", <<trackName(unlinked[idx[k]]), artistName(unlinked[idx[k]])>>)]

\* the searches that reject, in the order of the loop
SearchRejections(unlinked, errs, kind) ==
    LET idx == SelectSeq([i \in 1..Len(unlinked) |-> i], LAMBDA i : i \in errs)
    IN [k \in 1..Len(idx) |-> [op |-> "searchTracks", id |-> "", kind |-> kind]]

Searched(unlinked) == {i \in 1..Len(unlinked) : ~Insufficient(unlinked[i])}

FixFail(err) == [op |-> "fixBrokenTracks", success |-> FALSE, error |-> err]

\* reading the playlist rejects
FixReadThrows(playlistId) ==
    \E failAt \in 1..Len(ReadCalls(playlistId, Len(rtracks[playlistId]))), kind \in ErrorKinds :
        /\ opres' = FixFail(ErrorMessage(kind))
        /\ calls' = Issued(ReadCalls(playlistId, Len(rtracks[playlistId])), failAt)
        /\ raised' = <<Rejection(ReadCalls(playlistId, Len(rtracks[playlistId]))[failAt], kind)>>
        /\ dbops' = <<>>
        /\ UNCHANGED <<cache, history, rlib, rtracks, rname, created>>

\* no unlinked track: success with every count 0 and no playlist
FixNothing(playlistId) ==
    /\ Len(unlinkedTracks(allTracks(rtracks[playlistId]))) = 0
    /\ opres' = [op |-> "fixBrokenTracks", success |-> TRUE, total |-> 0, recovered |-> 0,
                 failed |-> 0]
    /\ calls' = ReadCalls(playlistId, Len(rtracks[playlistId]))
    /\ raised' = <<>>
    /\ dbops' = <<>>
    /\ UNCHANGED <<cache, history, rlib, rtracks, rname, created>>

\* a variant that reports the number recovered as the total
NoneRecoveredTotalZero(unlinked, failed) ==
    [op |-> "fixBrokenTracks", success |-> FALSE, total |-> 0,
     recovered |-> 0, failed |-> Len(failed),
     error |-> "No tracks could be recovered"]

\* the failure result of a run that recovered nothing
NoneRecovered(unlinked, failed) ==
    [op |-> "fixBrokenTracks", success |-> FALSE, total |-> Len(unlinked),
     recovered |-> 0, failed |-> Len(failed),
     error |-> "No tracks could be recovered"]

\* unlinked tracks, none recovered
FixNoneRecovered(playlistId) ==
    LET unlinked == unlinkedTracks(allTracks(rtracks[playlistId]))
    IN \E errs \in SUBSET Searched(unlinked) :
       \E kind \in KindsFor(errs) :
        /\ Len(unlinked) > 0
        /\ Len(recoveredUris(unlinked, errs)) = 0
        /\ raised' = SearchRejections(unlinked, errs, kind)
        /\ opres' = NoneRecovered(unlinked, failedTracks(unlinked, errs))
        /\ calls' = ReadCalls(playlistId, Len(rtracks[playlistId])) \o SearchCalls(unlinked)
        /\ dbops' = <<>>
        /\ UNCHANGED <<cache, history, rlib, rtracks, rname, created>>

\* some recovered: the new playlist is created and filled; failAt > 0 is the creating
\* or appending call that rejects
FixRecovers(playlistId) ==
    LET unlinked == unlinkedTracks(allTracks(rtracks[playlistId]))
        newId == NextNewId
        newName == rname[playlistId] \o RecoveredSuffix
    IN \E errs \in SUBSET Searched(unlinked) :
       LET uris == recoveredUris(unlinked, errs)
           post == <<Call("createPlaylist", newId, newName)>> \o AddCalls(newId, uris)
       IN \E failAt \in 0..Len(post) :
          \E kind \in KindsFor(errs \cup (IF failAt = 0 THEN {} ELSE {0})) :
        /\ Len(uris) > 0
        /\ created < MaxCreated
        /\ opres' = IF failAt = 0
                    THEN [op |-> "fixBrokenTracks", success |-> TRUE, playlistId |-> newId,
                          total |-> Len(unlinked), recovered |-> Len(uris),
                          failed |-> Len(failedTracks(unlinked, errs))]
                    ELSE FixFail(ErrorMessage(kind))
        /\ raised' = SearchRejections(unlinked, errs, kind)
                       \o (IF failAt = 0 THEN <<>> ELSE <<Rejection(post[failAt], kind)>>)
        /\ calls' = ReadCalls(playlistId, Len(rtracks[playlistId])) \o SearchCalls(unlinked)
                      \o Issued(post, failAt)
        /\ dbops' = <<>>
        /\ RemoteAfter(Resolved(post, failAt), newName)
        /\ rlib' = IF HasCreate(Resolved(post, failAt)) THEN rlib \cup {newId} ELSE rlib
        /\ UNCHANGED <<cache, history>>

fixBrokenTracks(playlistId) ==
    \/ FixReadThrows(playlistId)
    \/ FixNothing(playlistId)
    \/ FixNoneRecovered(playlistId)
    \/ FixRecovers(playlistId)

\* Facade: 'playlist:fix-broken-links'
HandleFixBrokenLinks(playlistId) ==
    \/ Unauthenticated("fix-broken-links", [ids |-> <<playlistId>>])
    \/ /\ Authenticates("fix-broken-links", [ids |-> <<playlistId>>])
       /\ fixBrokenTracks(playlistId)
       /\ resp' = IF opres'.success
                  THEN Ok("fix-broken-links",
                          [playlistId |-> IF opres'.total = 0 THEN "undefined"
                                          ELSE opres'.playlistId,
                           total |-> opres'.total, recovered |-> opres'.recovered,
                           failed |-> opres'.failed])
                  ELSE Fail("fix-broken-links", opres'.error)
       /\ UNCHANGED <<passes, recovery, session>>

(***************************************************************************)
(* fixBrokenTracks, one iteration of its recovery loop a step: the handler *)
(* up to the loop, the loop over the unlinked tracks, and what follows it. *)
(***************************************************************************)
\* the loop about to take its first unlinked track; errs collects the positions whose
\* search rejected
Looping(playlistId, unlinked) ==
    [phase |-> "loop", id |-> playlistId, unlinked |-> unlinked, at |-> 1,
     recovered |-> <<>>, failed |-> <<>>, errs |-> {}]

\* the handler up to the loop: the playlist is read; with no unlinked track the handler
\* returns at once, as it does when a read rejects
FixLoopStart(playlistId) ==
    \/ Unauthenticated("fix-broken-links", [ids |-> <<playlistId>>])
    \/ /\ Authenticates("fix-broken-links", [ids |-> <<playlistId>>])
       /\ recovery.phase = "idle"
       /\ created < MaxCreated
       /\ \/ /\ FixReadThrows(playlistId) \/ FixNothing(playlistId)
             /\ resp' = IF opres'.success
                        THEN Ok("fix-broken-links",
                                [playlistId |-> "undefined", total |-> opres'.total,
                                 recovered |-> opres'.recovered, failed |-> opres'.failed])
                        ELSE Fail("fix-broken-links", opres'.error)
             /\ recovery' = recovery
          \/ /\ Len(unlinkedTracks(allTracks(rtracks[playlistId]))) > 0
             /\ recovery' = Looping(playlistId, unlinkedTracks(allTracks(rtracks[playlistId])))
             /\ calls' = ReadCalls(playlistId, Len(rtracks[playlistId]))
             /\ raised' = <<>>
             /\ dbops' = <<>>
             /\ opres' = NoRes
             /\ resp' = NoResp
             /\ UNCHANGED <<cache, history, rlib, rtracks, rname, created>>
       /\ UNCHANGED <<passes, session>>

\* a variant whose loop takes up again the track whose search rejected
FixLoopStepRetries(searchErr) ==
    /\ recovery.phase = "loop"
    /\ recovery.at <= Len(recovery.unlinked)
    /\ LET item == recovery.unlinked[recovery.at]
           outcome == Recovery(item, searchErr)
       IN /\ searchErr => ~Insufficient(item)
          /\ recovery' =
                [recovery EXCEPT
                   !.at = IF searchErr THEN @ ELSE @ + 1,
                   !.recovered =
                      IF outcome = "recovered"
                      THEN Append(@, bestMatch(Catalogue(trackName(item), artistName(item))).uri)
                      ELSE @,
                   !.failed = IF outcome = "recovered" \/ searchErr THEN @
                              ELSE Append(@, [at |-> recovery.at, reason |-> outcome]),
                   !.errs = IF searchErr THEN @ \cup {recovery.at} ELSE @]
          /\ calls' = IF Insufficient(item) THEN <<>>
                      ELSE <<Call("searchTracks", "", <<trackName(item), artistName(item)>>)>>
          /\ \E kind \in KindsFor(IF searchErr THEN {recovery.at} ELSE {}) :
                raised' = IF searchErr
                          THEN <<[op |-> "searchTracks", id |-> "", kind |-> kind]>>
                          ELSE <<>>
    /\ dbops' = <<>>
    /\ opres' = NoRes
    /\ resp' = NoResp
    /\ handler' = "none"
    /\ req' = NoReq
    /\ UNCHANGED <<token, cache, history, rlib, rtracks, rname, created, passes, session>>

\* a variant whose catch block logs the rejected search and counts nothing
FixLoopStepDropsErrors(searchErr) ==
    /\ recovery.phase = "loop"
    /\ recovery.at <= Len(recovery.unlinked)
    /\ LET item == recovery.unlinked[recovery.at]
           outcome == Recovery(item, searchErr)
       IN /\ searchErr => ~Insufficient(item)
          /\ recovery' =
                [recovery EXCEPT
                   !.at = @ + 1,
                   !.recovered =
                      IF outcome = "recovered"
                      THEN Append(@, bestMatch(Catalogue(trackName(item), artistName(item))).uri)
                      ELSE @,
                   !.failed = IF outcome = "recovered" \/ searchErr THEN @
                              ELSE Append(@, [at |-> recovery.at, reason |-> outcome]),
                   !.errs = IF searchErr THEN @ \cup {recovery.at} ELSE @]
          /\ calls' = IF Insufficient(item) THEN <<>>
                      ELSE <<Call("searchTracks", "", <<trackName(item), artistName(item)>>)>>
          /\ \E kind \in KindsFor(IF searchErr THEN {recovery.at} ELSE {}) :
                raised' = IF searchErr
                          THEN <<[op |-> "searchTracks", id |-> "", kind |-> kind]>>
                          ELSE <<>>
    /\ dbops' = <<>>
    /\ opres' = NoRes
    /\ resp' = NoResp
    /\ handler' = "none"
    /\ req' = NoReq
    /\ UNCHANGED <<token, cache, history, rlib, rtracks, rname, created, passes, session>>

\* one iteration: a track without a name or an artist is counted failed without a
\* search; the search of any other is made, and whether it rejects (searchErr), finds
\* nothing or finds candidates, the loop goes on to the next track
FixLoopStep(searchErr) ==
    /\ recovery.phase = "loop"
    /\ recovery.at <= Len(recovery.unlinked)
    /\ LET item == recovery.unlinked[recovery.at]
           outcome == Recovery(item, searchErr)
       IN /\ searchErr => ~Insufficient(item)
          /\ recovery' =
                [recovery EXCEPT
                   !.at = @ + 1,
                   !.recovered =
                      IF outcome = "recovered"
                      THEN Append(@, bestMatch(Catalogue(trackName(item), artistName(item))).uri)
                      ELSE @,
                   !.failed = IF outcome = "recovered" THEN @
                              ELSE Append(@, [at |-> recovery.at, reason |-> outcome]),
                   !.errs = IF searchErr THEN @ \cup {recovery.at} ELSE @]
          /\ calls' = IF Insufficient(item) THEN <<>>
                      ELSE <<Call("searchTracks", "", <<trackName(item), artistName(item)>>)>>
          /\ \E kind \in KindsFor(IF searchErr THEN {recovery.at} ELSE {}) :
                raised' = IF searchErr
                          THEN <<[op |-> "searchTracks", id |-> "", kind |-> kind]>>
                          ELSE <<>>
    /\ dbops' = <<>>
    /\ opres' = NoRes
    /\ resp' = NoResp
    /\ handler' = "none"
    /\ req' = NoReq
    /\ UNCHANGED <<token, cache, history, rlib, rtracks, rname, created, passes, session>>

\* after the loop: nothing recovered is the failure result; otherwise the new playlist
\* is created and filled, failAt > 0 being the creating or appending call that rejects
FixLoopReturn ==
    /\ recovery.phase = "loop"
    /\ recovery.at > Len(recovery.unlinked)
    /\ LET newId == NextNewId
           newName == rname[recovery.id] \o RecoveredSuffix
           post == <<Call("createPlaylist", newId, newName)>> \o AddCalls(newId, recovery.recovered)
       IN IF recovery.recovered = <<>>
          THEN /\ opres' = NoneRecovered(recovery.unlinked, recovery.failed)
               /\ calls' = <<>>
               /\ raised' = <<>>
               /\ UNCHANGED <<rlib, rtracks, rname, created>>
          ELSE \E failAt \in 0..Len(post) :
               \E kind \in KindsFor(IF failAt = 0 THEN {} ELSE {0}) :
                 /\ opres' = IF failAt = 0
                             THEN [op |-> "fixBrokenTracks", success |-> TRUE,
                                   playlistId |-> newId,
                                   total |-> Len(recovery.unlinked),
                                   recovered |-> Len(recovery.recovered),
                                   failed |-> Len(recovery.failed)]
                             ELSE FixFail(ErrorMessage(kind))
                 /\ raised' = IF failAt = 0 THEN <<>> ELSE <<Rejection(post[failAt], kind)>>
                 /\ calls' = Issued(post, failAt)
                 /\ RemoteAfter(Resolved(post, failAt), newName)
                 /\ rlib' = IF HasCreate(Resolved(post, failAt)) THEN rlib \cup {newId} ELSE rlib
    /\ resp' = IF opres'.success
               THEN Ok("fix-broken-links",
                       [playlistId |-> opres'.playlistId, total |-> opres'.total,
                        recovered |-> opres'.recovered, failed |-> opres'.failed])
               ELSE Fail("fix-broken-links", opres'.error)
    /\ recovery' = NoRecovery
    /\ handler' = "fix-broken-links"
    /\ req' = [ids |-> <<recovery.id>>]
    /\ dbops' = <<>>
    /\ UNCHANGED <<token, cache, history, passes, session>>

(***************************************************************************)
(* PlaylistOperations.bulkRename.  A find pattern is a literal text, or an *)
(* expression new RegExp rejects.                                          *)
(***************************************************************************)
Pattern(valid, text) == [valid |-> valid, text |-> text]

IsPrefix(p, str) == Len(p) <= Len(str) /\ SubSeq(str, 1, Len(p)) = p

\* name.replace(new RegExp(find, 'g'), replacement): every match, left to right
RECURSIVE ReplaceAll(_, _, _)
ReplaceAll(str, find, replacement) ==
    IF find = <<>>
    THEN (IF str = <<>> THEN replacement
          ELSE replacement \o <<Head(str)>> \o ReplaceAll(Tail(str), find, replacement))
    ELSE IF str = <<>> THEN <<>>
    ELSE IF IsPrefix(find, str)
         THEN replacement \o ReplaceAll(SubSeq(str, Len(find) + 1, Len(str)), find, replacement)
         ELSE <<Head(str)>> \o ReplaceAll(Tail(str), find, replacement)

updatePlaylistName(c, id, name) ==
    [x \in DOMAIN c |-> IF x = id THEN [c[x] EXCEPT !.name = name] ELSE c[x]]

\* a variant that does not look at the owner flag of the row
RenameVerdictUnchecked(c, id, find, replacement) ==
    IF id \notin DOMAIN c THEN "failed"
    ELSE IF ReplaceAll(c[id].name, find, replacement) = c[id].name THEN "skip"
    ELSE IF IsBlank(ReplaceAll(c[id].name, find, replacement)) THEN "failed"
    ELSE "rename"

\* a variant that renames a playlist to the name it already has
RenameVerdictNoSkip(c, id, find, replacement) ==
    IF id \notin DOMAIN c THEN "failed"
    ELSE IF ~c[id].is_owner THEN "failed"
    ELSE IF IsBlank(ReplaceAll(c[id].name, find, replacement)) THEN "failed"
    ELSE "rename"

\* a variant that accepts an empty or whitespace-only new name
RenameVerdictBlankAllowed(c, id, find, replacement) ==
    IF id \notin DOMAIN c THEN "failed"
    ELSE IF ~c[id].is_owner THEN "failed"
    ELSE IF ReplaceAll(c[id].name, find, replacement) = c[id].name THEN "skip"
    ELSE "rename"

\* what the loop decides for one playlist, from its cached row
RenameVerdict(c, id, find, replacement) ==
    IF id \notin DOMAIN c THEN "failed"
    ELSE IF ~c[id].is_owner THEN "failed"
    ELSE IF ReplaceAll(c[id].name, find, replacement) = c[id].name THEN "skip"
    ELSE IF IsBlank(ReplaceAll(c[id].name, find, replacement)) THEN "failed"
    ELSE "rename"

RenameState(c, nm, renamed, failed, cs, ds) ==
    [cache |-> c, rname |-> nm, renamed |-> renamed, failed |-> failed, calls |-> cs,
     dbops |-> ds]

\* a variant that renames on the remote side and leaves the cached name as it was
RenamedCacheStale(st, id, newName) ==
    [st EXCEPT !.dbops = Append(Append(@, DbOp("getById", id)), DbOp("updateName", id)),
               !.calls = Append(@, Call("changePlaylistDetails", id, newName)),
               !.rname = [@ EXCEPT ![id] = newName],
               !.renamed = @ + 1]

\* the rename call resolves: the cached name follows and the playlist is counted
Renamed(st, id, newName) ==
    [st EXCEPT !.dbops = Append(Append(@, DbOp("getById", id)), DbOp("updateName", id)),
               !.calls = Append(@, Call("changePlaylistDetails", id, newName)),
               !.cache = updatePlaylistName(@, id, newName),
               !.rname = [@ EXCEPT ![id] = newName],
               !.renamed = @ + 1]

\* the loop over playlistIds; failing: the playlists whose rename call rejects
RECURSIVE RenameLoop(_, _, _, _, _)
RenameLoop(st, playlistIds, find, replacement, failing) ==
    IF playlistIds = <<>> THEN st
    ELSE LET id == Head(playlistIds)
             v == RenameVerdict(st.cache, id, find, replacement)
             newName == ReplaceAll(st.cache[id].name, find, replacement)
             read == Append(st.dbops, DbOp("getById", id))
             next ==
                IF v = "skip" THEN [st EXCEPT !.dbops = read]
                ELSE IF v = "failed"
                THEN [st EXCEPT !.dbops = read, !.failed = Append(@, id)]
                ELSE IF id \in failing
                THEN [st EXCEPT !.dbops = read, !.failed = Append(@, id),
                                !.calls = Append(@, Call("changePlaylistDetails", id, newName))]
                ELSE Renamed(st, id, newName)
         IN RenameLoop(next, Tail(playlistIds), find, replacement, failing)

bulkRename(playlistIds, find, replacement) ==
    IF ~find.valid
    THEN /\ opres' = [op |-> "bulkRename", success |-> FALSE, error |-> "Invalid regex pattern"]
         /\ calls' = <<>>
         /\ raised' = <<>>
         /\ dbops' = <<>>
         /\ UNCHANGED <<cache, rname>>
    ELSE \E failing \in SUBSET {id \in Range(playlistIds) :
                                  RenameVerdict(cache, id, find.text, replacement) = "rename"} :
         \E kind \in KindsFor(failing) :
           LET st == RenameLoop(RenameState(cache, rname, 0, <<>>, <<>>, <<>>),
                                playlistIds, find.text, replacement, failing)
               rejected == SelectSeq(st.calls, LAMBDA c : c.id \in failing)
           IN /\ opres' = [op |-> "bulkRename", success |-> TRUE, renamed |-> st.renamed,
                           failed |-> st.failed]
              /\ calls' = st.calls
              /\ raised' = [i \in 1..Len(rejected) |-> Rejection(rejected[i], kind)]
              /\ dbops' = st.dbops
              /\ cache' = st.cache
              /\ rname' = st.rname

\* Facade: 'playlist:bulk-rename'
RenameReq(playlistIds, find, replacement) ==
    [ids |-> playlistIds, find |-> find, replacement |-> replacement]

HandleBulkRename(playlistIds, find, replacement) ==
    \/ Unauthenticated("bulk-rename", RenameReq(playlistIds, find, replacement))
    \/ /\ Authenticates("bulk-rename", RenameReq(playlistIds, find, replacement))
       /\ bulkRename(playlistIds, find, replacement)
       /\ resp' = IF opres'.success
                  THEN Ok("bulk-rename", [renamed |-> opres'.renamed, failed |-> opres'.failed])
                  ELSE Fail("bulk-rename", opres'.error)
       /\ UNCHANGED <<history, rlib, rtracks, created, passes, recovery, session>>

(***************************************************************************)
(* The environment: the token store ages, the user logs in and out, and    *)
(* playlists are followed and unfollowed from other clients.               *)
(***************************************************************************)
Quiet ==
    /\ handler' = "none"
    /\ req' = NoReq
    /\ calls' = <<>>
    /\ raised' = <<>>
    /\ dbops' = <<>>
    /\ opres' = NoRes
    /\ resp' = NoResp

TokenAges ==
    /\ token = "fresh"
    /\ token' = "stale"
    /\ Quiet
    /\ UNCHANGED <<cache, history, rlib, rtracks, rname, created, passes, recovery, session>>

Login ==
    /\ token = "none"
    /\ token' = "fresh"
    /\ Quiet
    /\ UNCHANGED <<cache, history, rlib, rtracks, rname, created, passes, recovery, session>>

Logout ==
    /\ token # "none"
    /\ token' = "none"
    /\ Quiet
    /\ UNCHANGED <<cache, history, rlib, rtracks, rname, created, passes, recovery, session>>

RemoteUnfollow(id) ==
    /\ id \in rlib
    /\ rlib' = rlib \ {id}
    /\ Quiet
    /\ UNCHANGED <<token, cache, history, rtracks, rname, created, passes, recovery, session>>

RemoteFollow(id) ==
    /\ id \in RemoteIds \ rlib
    /\ rlib' = rlib \cup {id}
    /\ Quiet
    /\ UNCHANGED <<token, cache, history, rtracks, rname, created, passes, recovery, session>>

(***************************************************************************)
(* Inputs of the system-level specifications.                              *)
(***************************************************************************)
DeleteInputs == {<<"p1", "p2">>, <<"p1", "p3">>}
MergeInputs == {<<"p1", "p2">>}
TargetNames == {<<"N", "e", "w">>}
MergeFlags == {<<TRUE, FALSE>>, <<FALSE, TRUE>>}
TagInputs == {<<"p1">>}
TagStrings == {<<"a">>}
TagModes == {TRUE}
RenameInputs == {<<"p1", "p3">>}
FindPatterns == {Pattern(TRUE, <<"M", "i">>)}
Replacements == {<<"F", "i">>}
ExternalIds == {"p3"}

(***************************************************************************)
(* The system: the user's session against the remote service.              *)
(***************************************************************************)
Init ==
    /\ token \in {"none", "fresh"}
    /\ cache = <<>>
    /\ history = <<>>
    /\ rlib = InitLibrary
    /\ rtracks = InitTracks
    /\ rname = InitNames
    /\ created = 0
    /\ passes = <<>>
    /\ recovery = NoRecovery
    /\ session = NoSession
    /\ calls = <<>>
    /\ dbops = <<>>
    /\ opres = NoRes
    /\ resp = NoResp
    /\ handler = "none"
    /\ req = NoReq
    /\ raised = <<>>

\* the token store changes under the handlers
Session ==
    \/ TokenAges
    \/ Login
    \/ Logout

\* other clients change what the user follows
Elsewhere ==
    \/ \E id \in ExternalIds : RemoteUnfollow(id)
    \/ \E id \in ExternalIds : RemoteFollow(id)

\* the two sync handlers and the steps of the passes they start
Syncing ==
    \/ HandleSync
    \/ HandleSyncDetails
    \/ \E i \in 1..MaxInflight : DetailBatchStart(i)
    \/ \E i \in 1..MaxInflight, id \in AllIds, ok \in BOOLEAN : DetailFetchDone(i, id, ok)
    \/ \E i \in 1..MaxInflight : DetailFinish(i)

\* the handlers that work on the cache alone, or on the cache and the library
Curating ==
    \/ \E ids \in DeleteInputs : HandleDelete(ids)
    \/ \E ids \in TagInputs, tags \in TagStrings, append \in TagModes :
          HandleUpdateTags(ids, tags, append)

\* the handlers that build a new playlist or rename playlists
Building ==
    \/ \E ids \in MergeInputs, name \in TargetNames, flags \in MergeFlags :
          HandleMerge(ids, name, flags[1], flags[2])
    \/ HandleRemoveDuplicates("p1")
    \/ HandleFixBrokenLinks("p2")
    \/ \E ids \in RenameInputs, find \in FindPatterns, repl \in Replacements :
          HandleBulkRename(ids, find, repl)

Next == Session \/ Elsewhere \/ Syncing \/ Curating \/ Building

Spec == Init /\ [][Next]_vars

\* the library kept in sync: every handler but those that build playlists
NextSync == Session \/ Elsewhere \/ Syncing \/ Curating

SpecSync == Init /\ [][NextSync]_vars

\* the facade in front of a remote nobody else changes
NextFacade == Session \/ Syncing \/ Curating \/ Building

SpecFacade == Init /\ [][NextFacade]_vars

(***************************************************************************)
(* The bulk operations over bounded playlists: the remote contents and the *)
(* requests are drawn from every combination the bounds allow, before a    *)
(* cache that holds what a listing pass stored.                            *)
(***************************************************************************)
OpsItems == {tA, tB, NullItem, tNoUri, tLong}

RECURSIVE ItemLists(_)
ItemLists(n) ==
    IF n = 0 THEN {<<>>}
    ELSE ItemLists(n - 1) \cup
         {Append(l, it) : l \in {x \in ItemLists(n - 1) : Len(x) = n - 1}, it \in OpsItems}

OpsTrackLists ==
    ItemLists(MaxTracks) \cup {<<tA, tB, tA, tC, tB>>, <<tLocal, tB, tLong, tB, tA>>}

\* the second source of a merge
OpsSecondLists == {<<>>, <<tA>>, <<tB, tA>>, <<NullItem>>, <<tLong, tB>>}

OpsContents ==
    {[id \in AllIds |-> IF id = "p1" THEN a ELSE IF id = "p2" THEN b ELSE <<>>] :
        a \in OpsTrackLists, b \in OpsSecondLists}

OpsLibraries == {{"p2", "p3"}, {"p3"}, {"p1", "p2"}}

OpsDeleteInputs ==
    {<<>>, <<"p1">>, <<"p3">>, <<"p1", "p2">>, <<"p2", "p1">>, <<"p1", "p3">>,
     <<"p3", "p1", "p2">>}
OpsMergeInputs == {<<"p1">>, <<"p1", "p2">>, <<"p2", "p1">>}
OpsTargetNames == {<<" ">>, <<"N", "e", "w">>}

InitOps ==
    /\ token \in {"none", "fresh"}
    /\ history = <<>>
    /\ \/ rlib = RemoteIds /\ rtracks \in OpsContents
       \/ rlib \in OpsLibraries /\ rtracks = InitTracks
    /\ rname = InitNames
    /\ cache = upsertAll(<<>>, ListedRows(rlib))
    /\ created = 0
    /\ passes = <<>>
    /\ recovery = NoRecovery
    /\ session = NoSession
    /\ calls = <<>>
    /\ dbops = <<>>
    /\ opres = NoRes
    /\ resp = NoResp
    /\ handler = "none"
    /\ req = NoReq
    /\ raised = <<>>

NextOps ==
    \/ \E ids \in OpsDeleteInputs : HandleDelete(ids)
    \/ \E ids \in OpsMergeInputs, name \in OpsTargetNames, dedupe \in BOOLEAN, del \in BOOLEAN :
          HandleMerge(ids, name, dedupe, del)
    \/ \E id \in {"p1", "p2"} : HandleRemoveDuplicates(id)

SpecOps == InitOps /\ [][NextOps]_vars

(***************************************************************************)
(* The five bulk operations behind the facade, before a cache that holds   *)
(* what a listing pass stored: the playlist to repair is drawn from every  *)
(* combination of linked and unlinked items the bounds allow, and the      *)
(* batches mix playlists the cache flags as owned with one it does not.    *)
(***************************************************************************)
EngineItems == {tA, tNoId, tUnplayable, NullItem, tNoUri, tNoMeta}

RECURSIVE ListsOver(_, _)
ListsOver(S, n) ==
    IF n = 0 THEN {<<>>}
    ELSE ListsOver(S, n - 1) \cup
         {Append(l, it) : l \in {x \in ListsOver(S, n - 1) : Len(x) = n - 1}, it \in S}

EngineContents ==
    {[id \in AllIds |-> IF id = "p1" THEN <<tA, tB, tA, tC, tB>>
                        ELSE IF id = "p2" THEN b ELSE <<>>] :
        b \in ListsOver(EngineItems, MaxTracks)}

EngineDeleteInputs == {<<"p1", "p2">>, <<"p1", "p3">>}
EngineMergeInputs == {<<"p1", "p2">>, <<"p3", "p1">>}
EngineRenameInputs == {<<"p1", "p3">>}
EnginePatterns == {Pattern(TRUE, <<"M", "i">>), Pattern(FALSE, <<"(">>)}

InitEngine ==
    /\ token \in {"none", "fresh"}
    /\ history = <<>>
    /\ rlib = RemoteIds
    /\ rtracks \in EngineContents
    /\ rname = InitNames
    /\ cache = upsertAll(<<>>, ListedRows(rlib))
    /\ created = 0
    /\ passes = <<>>
    /\ recovery = NoRecovery
    /\ session = NoSession
    /\ calls = <<>>
    /\ dbops = <<>>
    /\ opres = NoRes
    /\ resp = NoResp
    /\ handler = "none"
    /\ req = NoReq
    /\ raised = <<>>

NextEngine ==
    \/ \E ids \in EngineDeleteInputs : HandleDelete(ids)
    \/ \E ids \in EngineMergeInputs, name \in TargetNames, del \in BOOLEAN :
          HandleMerge(ids, name, TRUE, del)
    \/ HandleRemoveDuplicates("p1")
    \/ HandleFixBrokenLinks("p2")
    \/ \E ids \in EngineRenameInputs, find \in EnginePatterns, repl \in Replacements :
          HandleBulkRename(ids, find, repl)

SpecEngine == InitEngine /\ [][NextEngine]_vars

(***************************************************************************)
(* The end-to-end scenario: an empty cache before a library of three       *)
(* playlists the authenticated user owns, two of them with 4 and 3 tracks  *)
(* and one URI in common; the user syncs, then merges the two.             *)
(***************************************************************************)
ScenarioTracks ==
    [id \in AllIds |->
        IF id = "s1" THEN <<tA, tB, tC, tD>>
        ELSE IF id = "s2" THEN <<tD, tE, tF>>
        ELSE IF id = "s3" THEN <<tA>>
        ELSE <<>>]

ScenarioNames ==
    [id \in AllIds |->
        IF id = "s1" THEN <<"M", "i", "x">>
        ELSE IF id = "s2" THEN <<"R", "o", "c", "k">>
        ELSE IF id = "s3" THEN <<"J", "a", "z", "z">>
        ELSE EmptyStr]

ScenarioMerge == <<"s1", "s2">>

InitScenario ==
    /\ token \in {"none", "fresh"}
    /\ cache = <<>>
    /\ history = <<>>
    /\ rlib = ScenarioIds
    /\ rtracks = ScenarioTracks
    /\ rname = ScenarioNames
    /\ created = 0
    /\ passes = <<>>
    /\ recovery = NoRecovery
    /\ session = NoSession
    /\ calls = <<>>
    /\ dbops = <<>>
    /\ opres = NoRes
    /\ resp = NoResp
    /\ handler = "none"
    /\ req = NoReq
    /\ raised = <<>>

NextScenario ==
    \/ Session
    \/ Syncing
    \/ \E del \in BOOLEAN : HandleMerge(ScenarioMerge, <<"N", "e", "w">>, TRUE, del)
    \/ HandleDelete(ScenarioMerge)

SpecScenario == InitScenario /\ [][NextScenario]_vars

(***************************************************************************)
(* Bulk rename alone: batches with playlists the cache flags as owned, one *)
(* it does not and one it may not hold, under patterns that match, do not  *)
(* match, or leave an empty or whitespace-only name.                       *)
(***************************************************************************)
RenameLibraries == {RemoteIds, {"p1", "p3"}}
RenameBatches == {<<"p1", "p2">>, <<"p2", "p3", "p1">>}
RenamePatterns ==
    {Pattern(TRUE, <<"M", "i">>), Pattern(TRUE, <<"M", "i", "x">>), Pattern(TRUE, <<"R">>),
     Pattern(TRUE, <<"Z", "z">>), Pattern(FALSE, <<"(">>)}
RenameReplacements == {<<"F", "i">>, <<"M", "i">>, <<" ">>, <<>>}
RenameNames == {InitNames, [InitNames EXCEPT !["p2"] = <<"M", "i", "x", "e", "r">>]}

InitRename ==
    /\ token \in {"none", "fresh"}
    /\ history = <<>>
    /\ rlib \in RenameLibraries
    /\ rtracks = InitTracks
    /\ rname \in RenameNames
    /\ cache = upsertAll(<<>>, ListedRows(rlib))
    /\ created = 0
    /\ passes = <<>>
    /\ recovery = NoRecovery
    /\ session = NoSession
    /\ calls = <<>>
    /\ dbops = <<>>
    /\ opres = NoRes
    /\ resp = NoResp
    /\ handler = "none"
    /\ req = NoReq
    /\ raised = <<>>

NextRename ==
    \E ids \in RenameBatches, find \in RenamePatterns, repl \in RenameReplacements :
        HandleBulkRename(ids, find, repl)

SpecRename == InitRename /\ [][NextRename]_vars

(***************************************************************************)
(* The listing pass over a library of more than one page: fifty-one        *)
(* playlists of other users, each with a name of its own and no tracks,    *)
(* before an empty cache.  The detail passes the handler chains stay in    *)
(* flight: their fetches have not settled yet.                             *)
(***************************************************************************)
PagingTable ==
    <<"b01", "b02", "b03", "b04", "b05", "b06", "b07", "b08", "b09", "b10",
      "b11", "b12", "b13", "b14", "b15", "b16", "b17", "b18", "b19", "b20",
      "b21", "b22", "b23", "b24", "b25", "b26", "b27", "b28", "b29", "b30",
      "b31", "b32", "b33", "b34", "b35", "b36", "b37", "b38", "b39", "b40",
      "b41", "b42", "b43", "b44", "b45", "b46", "b47", "b48", "b49", "b50",
      "b51">>

PagingIds == Range(PagingTable)

PagingIndex(id) == CHOOSE k \in 1..Len(PagingTable) : PagingTable[k] = id

PagingNames ==
    [id \in PagingIds \cup AllIds |->
        IF id \in PagingIds
        THEN <<"L", Alphabet[7 + (PagingIndex(id) \div 26)], Alphabet[7 + (PagingIndex(id) % 26)]>>
        ELSE InitNames[id]]

PagingTracks == [id \in PagingIds \cup AllIds |-> <<>>]

\* two pages, one full page that a playlist followed elsewhere makes two, or one
\* page short of full
PagingLibraries == {PagingIds, PagingIds \ {"b51"}, PagingIds \ {"b50", "b51"}}

InitPaging ==
    /\ token \in {"none", "fresh"}
    /\ cache = <<>>
    /\ history = <<>>
    /\ rlib \in PagingLibraries
    /\ rtracks = PagingTracks
    /\ rname = PagingNames
    /\ created = 0
    /\ passes = <<>>
    /\ recovery = NoRecovery
    /\ session = NoSession
    /\ calls = <<>>
    /\ dbops = <<>>
    /\ opres = NoRes
    /\ resp = NoResp
    /\ handler = "none"
    /\ req = NoReq
    /\ raised = <<>>

NextPaging == Session \/ Elsewhere \/ HandleSync

SpecPaging == InitPaging /\ [][NextPaging]_vars

(***************************************************************************)
(* The detail pass over more playlists than one batch holds: six playlists *)
(* before an empty cache, one of them legitimately empty.                  *)
(***************************************************************************)
DetailLibrary == RemoteIds \cup ScenarioIds

DetailTracks ==
    [id \in AllIds |->
        IF id \in RemoteIds THEN InitTracks[id] ELSE ScenarioTracks[id]]

DetailNames ==
    [id \in AllIds |->
        IF id \in RemoteIds THEN InitNames[id]
        ELSE IF id = "s1" THEN <<"A">>
        ELSE IF id = "s2" THEN <<"B">>
        ELSE ScenarioNames[id]]

InitDetail ==
    /\ token \in {"none", "fresh"}
    /\ cache = <<>>
    /\ history = <<>>
    /\ rlib = DetailLibrary
    /\ rtracks = DetailTracks
    /\ rname = DetailNames
    /\ created = 0
    /\ passes = <<>>
    /\ recovery = NoRecovery
    /\ session = NoSession
    /\ calls = <<>>
    /\ dbops = <<>>
    /\ opres = NoRes
    /\ resp = NoResp
    /\ handler = "none"
    /\ req = NoReq
    /\ raised = <<>>

NextDetail == Session \/ Syncing

SpecDetail == InitDetail /\ [][NextDetail]_vars

(***************************************************************************)
(* Playlists longer than one add-tracks batch: the first source holds up   *)
(* to 101 tracks of their own and one of them again, the second a hundred  *)
(* of the same tracks or a short list with a track to repair.              *)
(***************************************************************************)
CatalogTable ==
    <<"u001", "u002", "u003", "u004", "u005", "u006", "u007", "u008", "u009", "u010",
      "u011", "u012", "u013", "u014", "u015", "u016", "u017", "u018", "u019", "u020",
      "u021", "u022", "u023", "u024", "u025", "u026", "u027", "u028", "u029", "u030",
      "u031", "u032", "u033", "u034", "u035", "u036", "u037", "u038", "u039", "u040",
      "u041", "u042", "u043", "u044", "u045", "u046", "u047", "u048", "u049", "u050",
      "u051", "u052", "u053", "u054", "u055", "u056", "u057", "u058", "u059", "u060",
      "u061", "u062", "u063", "u064", "u065", "u066", "u067", "u068", "u069", "u070",
      "u071", "u072", "u073", "u074", "u075", "u076", "u077", "u078", "u079", "u080",
      "u081", "u082", "u083", "u084", "u085", "u086", "u087", "u088", "u089", "u090",
      "u091", "u092", "u093", "u094", "u095", "u096", "u097", "u098", "u099", "u100",
      "u101">>

\* the first n tracks of the catalogue, each once
Distinct(n) == [i \in 1..n |-> Item(TrackUri(CatalogTable[i]), 1)]

BatchFirstLists ==
    {Append(Distinct(101), Distinct(1)[1]), Append(Distinct(100), Distinct(1)[1]),
     Distinct(99)}

BatchSecondLists == {Distinct(100), <<tNoId, tA>>}

BatchContents ==
    {[id \in AllIds |-> IF id = "p1" THEN a ELSE IF id = "p2" THEN b ELSE <<>>] :
        a \in BatchFirstLists, b \in BatchSecondLists}

InitBatches ==
    /\ token \in {"none", "fresh"}
    /\ history = <<>>
    /\ rlib = RemoteIds
    /\ rtracks \in BatchContents
    /\ rname = InitNames
    /\ cache = upsertAll(<<>>, ListedRows(rlib))
    /\ created = 0
    /\ passes = <<>>
    /\ recovery = NoRecovery
    /\ session = NoSession
    /\ calls = <<>>
    /\ dbops = <<>>
    /\ opres = NoRes
    /\ resp = NoResp
    /\ handler = "none"
    /\ req = NoReq
    /\ raised = <<>>

NextBatches ==
    \/ \E dedupe \in BOOLEAN : HandleMerge(<<"p1", "p2">>, <<"N", "e", "w">>, dedupe, FALSE)
    \/ HandleRemoveDuplicates("p1")
    \/ HandleFixBrokenLinks("p2")

SpecBatches == InitBatches /\ [][NextBatches]_vars

(***************************************************************************)
(* The recovery loop of fix-broken-links step by step, over every playlist *)
(* of up to MaxTracks linked and unlinked items and one of five.  An       *)
(* iteration that can run does run, and so does what follows the loop: a   *)
(* search call settles, and the pause between two searches ends.           *)
(***************************************************************************)
RecoveryContents ==
    EngineContents \cup
    {[id \in AllIds |-> IF id = "p2" THEN <<tNoId, NullItem, tA, tUnplayable, tNoId>>
                        ELSE InitTracks[id]]}

InitRecovery ==
    /\ token \in {"none", "fresh"}
    /\ history = <<>>
    /\ rlib = RemoteIds
    /\ rtracks \in RecoveryContents
    /\ rname = InitNames
    /\ cache = upsertAll(<<>>, ListedRows(rlib))
    /\ created = 0
    /\ passes = <<>>
    /\ recovery = NoRecovery
    /\ session = NoSession
    /\ calls = <<>>
    /\ dbops = <<>>
    /\ opres = NoRes
    /\ resp = NoResp
    /\ handler = "none"
    /\ req = NoReq
    /\ raised = <<>>

NextRecovery ==
    \/ Session
    \/ FixLoopStart("p2")
    \/ \E searchErr \in BOOLEAN : FixLoopStep(searchErr)
    \/ FixLoopReturn

RecoveryFairness ==
    /\ WF_vars(\E searchErr \in BOOLEAN : FixLoopStep(searchErr))
    /\ WF_vars(FixLoopReturn)

SpecRecovery == InitRecovery /\ [][NextRecovery]_vars /\ RecoveryFairness

(***************************************************************************)
(* Tagging: update-tags over a cache that holds what a listing pass        *)
(* stored, with tag strings that repeat a tag or start with a blank, and   *)
(* a target that has no cache row.                                         *)
(***************************************************************************)
TagTexts ==
    {<<>>, <<"a">>, <<"b">>, <<"a", " ", "b">>, <<"a", " ", "a">>, <<" ", "b">>}

TagTargets == {<<"p1">>, <<"p1", "p2">>, <<"p3">>}

InitTags ==
    /\ token \in {"none", "fresh"}
    /\ history = <<>>
    /\ rlib = InitLibrary
    /\ rtracks = InitTracks
    /\ rname = InitNames
    /\ cache = upsertAll(<<>>, ListedRows(rlib))
    /\ created = 0
    /\ passes = <<>>
    /\ recovery = NoRecovery
    /\ session = NoSession
    /\ calls = <<>>
    /\ dbops = <<>>
    /\ opres = NoRes
    /\ resp = NoResp
    /\ handler = "none"
    /\ req = NoReq
    /\ raised = <<>>

NextTags ==
    \E ids \in TagTargets, tags \in TagTexts, append \in BOOLEAN :
        HandleUpdateTags(ids, tags, append)

SpecTags == InitTags /\ [][NextTags]_vars

(***************************************************************************)
(* SpotifyAuth by the fields of its token store.  Time is counted in       *)
(* minutes; a call of getAccessToken that has to refresh takes two steps,  *)
(* the request and the settling of the awaited refresh, and the session    *)
(* goes on between them.                                                   *)
(***************************************************************************)
MaxClock == 6
MaxCalls == 2

\* 5 * 60 * 1000 ms
RefreshBuffer == 5

\* expires_in of the token endpoint, in minutes
TokenLifetime == 7

NoTokens == [stored |-> FALSE]

\* saveTokens: expiresAt = Date.now() + expiresIn * 1000; an access token is told
\* from another by the time it was issued
saveTokens(now, expiresIn) ==
    [stored |-> TRUE, accessToken |-> now, refreshToken |-> TRUE, expiresAt |-> now + expiresIn]

\* now >= expiresAt - 5 * 60 * 1000
NeedsRefresh(tokens, now) == now >= tokens.expiresAt - RefreshBuffer

\* a variant that refreshes only a token that has expired
NeedsRefreshExpired(tokens, now) == now >= tokens.expiresAt

\* isAuthenticated()
isAuthenticated(store) == store.stored

\* what the handlers' token stands for
TokenOf(store, now) ==
    IF ~store.stored THEN "none" ELSE IF NeedsRefresh(store, now) THEN "stale" ELSE "fresh"

Returned(i, value) == [op |-> "getAccessToken", call |-> i, value |-> value]

\* a step of the token session: no request of the renderer is answered by it
SessionStep(sess) ==
    /\ session' = sess
    /\ token' = TokenOf(sess.store, sess.now)
    /\ handler' = "none"
    /\ req' = NoReq
    /\ resp' = NoResp
    /\ calls' = <<>>
    /\ dbops' = <<>>
    /\ raised' = <<>>
    /\ UNCHANGED <<cache, history, rlib, rtracks, rname, created, passes, recovery>>

ClockTicks ==
    /\ session.now < MaxClock
    /\ SessionStep([session EXCEPT !.now = @ + 1])
    /\ opres' = NoRes

\* handleCallback: the code is exchanged and the tokens are saved
handleCallback ==
    /\ SessionStep([session EXCEPT !.store = saveTokens(session.now, TokenLifetime),
                                   !.invalidated = FALSE])
    /\ opres' = NoRes

\* clearTokens, at logout
clearTokens ==
    /\ session.store.stored
    /\ SessionStep([session EXCEPT !.store = NoTokens])
    /\ opres' = NoRes

\* a variant that answers an expiring token without refreshing it
getAccessTokenStartUnrefreshed(i) ==
    /\ session.pending[i] = "idle"
    /\ IF ~session.store.stored
       THEN /\ SessionStep(session)
            /\ opres' = Returned(i, [kind |-> "null"])
       ELSE /\ SessionStep(session)
            /\ opres' = Returned(i, [kind |-> "token", issued |-> session.store.accessToken,
                                     expiresAt |-> session.store.expiresAt])

\* getAccessToken up to its await: null without tokens, the stored token when it is
\* not within the buffer; else refreshAccessToken, which throws at once without a
\* refresh token and else sends the refresh request
getAccessTokenStart(i) ==
    /\ session.pending[i] = "idle"
    /\ IF ~session.store.stored
       THEN /\ SessionStep(session)
            /\ opres' = Returned(i, [kind |-> "null"])
       ELSE IF ~NeedsRefresh(session.store, session.now)
       THEN /\ SessionStep(session)
            /\ opres' = Returned(i, [kind |-> "token", issued |-> session.store.accessToken,
                                     expiresAt |-> session.store.expiresAt])
       ELSE IF ~session.store.refreshToken
       THEN /\ SessionStep(session)
            /\ opres' = Returned(i, [kind |-> "throw"])
       ELSE /\ SessionStep([session EXCEPT !.pending[i] = "refreshing"])
            /\ opres' = NoRes

\* the awaited refresh settles.  Resolved: the tokens are saved with the refresh token
\* the call read, and the call returns the access token it then finds in the store.
\* Rejected: the tokens are cleared and the call throws.
refreshSettles(i, ok) ==
    /\ session.pending[i] = "refreshing"
    /\ IF ok
       THEN /\ SessionStep([session EXCEPT !.pending[i] = "idle",
                                           !.store = saveTokens(session.now, TokenLifetime)])
            /\ opres' = Returned(i, [kind |-> "token", issued |-> session.now,
                                     expiresAt |-> session.now + TokenLifetime])
       ELSE /\ SessionStep([session EXCEPT !.pending[i] = "idle", !.store = NoTokens,
                                           !.invalidated = TRUE])
            /\ opres' = Returned(i, [kind |-> "throw"])

\* the store as loadStoredTokens finds it at start: empty, or tokens saved by an
\* earlier run of the program
InitSession ==
    /\ session \in {[tracked |-> TRUE, store |-> st, now |-> 0,
                     pending |-> [i \in 1..MaxCalls |-> "idle"], invalidated |-> FALSE] :
                       st \in {NoTokens, saveTokens(0, TokenLifetime),
                               saveTokens(0, RefreshBuffer)}}
    /\ token = TokenOf(session.store, session.now)
    /\ history = <<>>
    /\ rlib = InitLibrary
    /\ rtracks = InitTracks
    /\ rname = InitNames
    /\ cache = <<>>
    /\ created = 0
    /\ passes = <<>>
    /\ recovery = NoRecovery
    /\ calls = <<>>
    /\ dbops = <<>>
    /\ opres = NoRes
    /\ resp = NoResp
    /\ handler = "none"
    /\ req = NoReq
    /\ raised = <<>>

NextSession ==
    \/ ClockTicks
    \/ handleCallback
    \/ clearTokens
    \/ \E i \in 1..MaxCalls : getAccessTokenStart(i)
    \/ \E i \in 1..MaxCalls, ok \in BOOLEAN : refreshSettles(i, ok)

SpecSession == InitSession /\ [][NextSession]_vars

(***************************************************************************)
(* Properties.  What a property says of "the last step" it reads from the  *)
(* trace variables: handler and req name the request, calls and dbops what *)
(* it did, opres and resp what it returned.                                *)
(***************************************************************************)
NoDuplicate(seq) == \A i, j \in 1..Len(seq) : seq[i] = seq[j] => i = j

CallsOf(op) == SelectSeq(calls, LAMBDA c : c.op = op)

\* "spotify:track:<id>": exactly three segments, the first two fixed
WellFormed(uri) == Len(uri) = 3 /\ uri[1] = "spotify" /\ uri[2] = "track"

\* the items of the sources of a request, sources in id order, tracks in playlist order
RECURSIVE Flatten(_)
Flatten(ids) == IF ids = <<>> THEN <<>> ELSE rtracks[Head(ids)] \o Flatten(Tail(ids))

\* the URIs the items of a sequence carry, in order
UrisOf(items) ==
    LET linked == SelectSeq(items, LAMBDA it : it.track /\ it.uri # EmptyStr)
    IN [i \in 1..Len(linked) |-> linked[i].uri]

FirstIndex(seq, x) == CHOOSE i \in 1..Len(seq) : seq[i] = x /\ \A j \in 1..(i - 1) : seq[j] # x

\* the URI sequence of a playlist on the remote side
Written(id) == [i \in 1..Len(rtracks[id]) |-> rtracks[id][i].uri]

\* the engine ran deletePlaylists in the last step
DeleteRan == handler = "delete" /\ opres.op = "deletePlaylists"
MergeRan == handler = "merge" /\ opres.op = "mergePlaylists"
RemoveDuplicatesRan == handler = "remove-duplicates" /\ opres.op = "removeDuplicates"

RequestedNotOwned(c, ids) == {p \in Range(ids) : p \in DOMAIN c /\ ~c[p].is_owner}

\* C1: a delete whose batch names at least one cached playlist that is not
\* owner-flagged issues no unfollow, removes no cache row, reports 0 deleted, and
\* returns as failed exactly the requested ids whose cached row is not owner-flagged,
\* whatever owner-flagged playlists the batch also names.
C1_MixedBatchRejected ==
    [][(DeleteRan' /\ RequestedNotOwned(cache, req'.ids) # {})
         => /\ \A i \in 1..Len(calls') : calls'[i].op # "unfollowPlaylist"
            /\ rlib' = rlib
            /\ \A i \in 1..Len(dbops') : dbops'[i].op # "delete"
            /\ cache' = cache
            /\ opres'.deleted = 0
            /\ NoDuplicate(opres'.failed)
            /\ Range(opres'.failed) = RequestedNotOwned(cache, req'.ids)]_vars

\* a rejected batch of three: two owner-flagged rows beside the one that is not
C1_Witness ==
    /\ DeleteRan
    /\ req.ids = <<"p3", "p1", "p2">>
    /\ {"p1", "p2", "p3"} \subseteq DOMAIN cache
    /\ cache["p1"].is_owner /\ cache["p2"].is_owner /\ ~cache["p3"].is_owner
    /\ opres.failed = <<"p3">>
    /\ opres.deleted = 0

\* the distinct well-formed track URIs the sources of the last request hold
SourceTrackUris == {u \in Range(UrisOf(Flatten(req.ids))) : WellFormed(u)}

\* C2: a successful merge of two or more sources with dedupe on writes a URI
\* sequence without repeats, each URI where its first occurrence stands in the
\* sources taken one after the other, as long as the distinct well-formed track
\* URIs of the sources are many.
C2_MergeDedupe ==
    (MergeRan /\ opres.success /\ req.removeDuplicates)
      => LET W == Written(opres.playlistId)
             src == UrisOf(Flatten(req.ids))
         IN /\ Len(req.ids) >= 2
            /\ NoDuplicate(W)
            /\ Range(W) = SourceTrackUris
            /\ Len(W) = Cardinality(SourceTrackUris)
            /\ opres.trackCount = Len(W)
            /\ \A i, j \in 1..Len(W) :
                  i < j => FirstIndex(src, W[i]) < FirstIndex(src, W[j])
            /\ Added(calls) = W

\* a merge that met a URI again in the second source, after another one
C2_Witness ==
    /\ MergeRan /\ opres.success /\ req.removeDuplicates
    /\ req.ids = <<"p2", "p1">>
    /\ Written("p2") = <<TrackUri("B"), TrackUri("A")>>
    /\ Written("p1") = <<TrackUri("A"), TrackUri("B")>>
    /\ Written(opres.playlistId) = <<TrackUri("B"), TrackUri("A")>>

\* no item of the sources carries a well-formed track URI
NothingToMerge(ids) ==
    \A i \in 1..Len(Flatten(ids)) :
        LET it == Flatten(ids)[i]
        IN ~it.track \/ it.uri = EmptyStr \/ ~WellFormed(it.uri)

\* C3: a merge whose sources hold no item with a well-formed track URI reports
\* failure, issues no create-playlist and no add-tracks call, and writes no history
\* entry.
C3_NothingValidNoMerge ==
    [][(MergeRan' /\ NothingToMerge(req'.ids))
         => /\ ~opres'.success
            /\ ~resp'.success
            /\ CallsOf("createPlaylist")' = <<>>
            /\ CallsOf("addTracksToPlaylist")' = <<>>
            /\ created' = created
            /\ rlib' = rlib
            /\ history' = history
            /\ \A i \in 1..Len(dbops') : dbops'[i].op # "log"]_vars

\* two sources fully read, holding only a null item and a four-segment URI
C3_Witness ==
    /\ MergeRan
    /\ req.ids = <<"p1", "p2">>
    /\ ~IsBlank(req.targetName)
    /\ rtracks["p1"] = <<tLong, NullItem>>
    /\ rtracks["p2"] = <<NullItem>>
    /\ Len(calls) = 2
    /\ ~opres.success

\* a URI stands twice among the items of the playlist
HasRepeat(id) == ~NoDuplicate(UrisOf(rtracks[id]))

\* the first occurrences of the URIs of a playlist, in order
FirstOccurrences(id) ==
    LET u == UrisOf(rtracks[id])
    IN SelectSeq([i \in 1..Len(u) |-> [at |-> i, uri |-> u[i]]],
                 LAMBDA e : FirstIndex(u, e.uri) = e.at)

\* C4: remove-duplicates keeps the first occurrence of each URI, in the original
\* order, and counts every later occurrence as a duplicate: [A,B,A,C,B] gives
\* [A,B,C] and 2 removed.  On a playlist without a repeated URI it reports failure
\* and creates no playlist.
C4_RemoveDuplicates ==
    RemoveDuplicatesRan =>
      LET id == req.ids[1]
          first == FirstOccurrences(id)
          wellFormed == SelectSeq(first, LAMBDA e : WellFormed(e.uri))
      IN /\ opres.success =>
              /\ Written(opres.playlistId) = [i \in 1..Len(wellFormed) |-> wellFormed[i].uri]
              /\ NoDuplicate(Written(opres.playlistId))
              /\ opres.duplicatesRemoved = Len(UrisOf(rtracks[id])) - Len(first)
              /\ HasRepeat(id)
         /\ (opres.success /\ Written(id) = <<TrackUri("A"), TrackUri("B"), TrackUri("A"),
                                               TrackUri("C"), TrackUri("B")>>)
              => /\ Written(opres.playlistId) = <<TrackUri("A"), TrackUri("B"), TrackUri("C")>>
                 /\ opres.duplicatesRemoved = 2
         /\ ~HasRepeat(id) =>
              /\ ~opres.success
              /\ ~resp.success
              /\ CallsOf("createPlaylist") = <<>>

\* the playlist [A,B,A,C,B] deduplicated
C4_Witness ==
    /\ RemoveDuplicatesRan
    /\ opres.success
    /\ rtracks[req.ids[1]] = <<tA, tB, tA, tC, tB>>
    /\ opres.duplicatesRemoved = 2

\* a playlist without a repeated URI refused
C4_WitnessNoRepeat ==
    /\ RemoveDuplicatesRan
    /\ rtracks[req.ids[1]] = <<tA, tB>>
    /\ ~opres.success
    /\ opres.error = "No duplicate tracks found in this playlist"

\* the last step was a listing pass that completed
ListingCompleted == handler = "sync" /\ resp.success

\* C5: after a listing pass, the cached is_owner flag of every listed playlist is
\* true exactly when the remote owner id of the playlist is the id of the
\* authenticated user.
C5_OwnerFlagMatchesUser ==
    ListingCompleted =>
        \A id \in rlib : id \in DOMAIN cache /\ (cache[id].is_owner <=> ownerId(id) = CurrentUser)

\* C6: the tag string of a cached playlist changes only in a step of the
\* update-tags handler: a listing pass or a detail pass that upserts the playlist
\* leaves its tags as they were.
C6_TagsOnlyByUpdateTags ==
    [][\A id \in DOMAIN cache \cap DOMAIN cache' :
          cache'[id].tags # cache[id].tags => handler' = "update-tags"]_vars

\* C7: after a completed listing pass the ids in the cache are exactly the ids the
\* remote listing returned: the row of a playlist no longer listed is gone.
C7_CacheAgreesWithListing == ListingCompleted => DOMAIN cache = rlib

\* C8: the listing pass is idempotent.  Right after a listing pass, running it again
\* against the unchanged remote leaves as many rows and the same is_owner flag on
\* every row, and both runs return total = synced = the number of listed playlists.
C8_ListingIdempotent ==
    ListingCompleted =>
        LET again == syncAllPlaylists(cache, rlib)
        IN /\ opres.total = Cardinality(rlib)
           /\ opres.synced = Cardinality(rlib)
           /\ again.result.total = Cardinality(rlib)
           /\ again.result.synced = Cardinality(rlib)
           /\ Cardinality(DOMAIN again.cache) = Cardinality(DOMAIN cache)
           /\ DOMAIN again.cache = DOMAIN cache
           /\ \A id \in DOMAIN cache : again.cache[id].is_owner = cache[id].is_owner

\* a listing pass over a cache that already held every listed playlist, and one more
C8_Witness ==
    /\ ListingCompleted
    /\ opres.total = 1
    /\ Cardinality(DOMAIN cache) = 2
    /\ \E id \in DOMAIN cache : cache[id].is_owner
    /\ \E id \in DOMAIN cache : ~cache[id].is_owner

\* C9: a detail pass starts only in a step of the sync-details handler; the
\* sync-listing handler never starts one.
C9_NeverAutoChained ==
    [][Len(passes') > Len(passes) => handler' = "sync-details"]_vars

RemoteHandlers ==
    {"sync", "sync-details", "delete", "merge", "fix-broken-links", "remove-duplicates",
     "bulk-rename"}

\* C10: a handler that touches the remote service, invoked when the token store
\* yields no valid access token (none stored, or a refresh that fails), returns a
\* failure envelope, and the invocation issues no remote call and reads and writes
\* no cache table.
C10_NoTokenNoWork ==
    [][(handler' \in RemoteHandlers /\ (token = "none" \/ (token = "stale" /\ token' = "none")))
         => /\ resp'.op = handler'
            /\ ~resp'.success
            /\ calls' = <<>>
            /\ dbops' = <<>>
            /\ opres' = NoRes
            /\ cache' = cache
            /\ history' = history
            /\ passes' = passes
            /\ <<rlib', rtracks', rname', created'>> = <<rlib, rtracks, rname, created>>]_vars

\* a merge refused for want of a token, over a cache with rows to read
C10_Witness ==
    /\ handler = "merge"
    /\ token = "none"
    /\ ~resp.success
    /\ resp.error = "Not authenticated"
    /\ DOMAIN cache # {}

\* a bulk rename refused because the refresh it needed failed
C10_WitnessRefresh ==
    /\ handler = "bulk-rename"
    /\ token = "none"
    /\ ~resp.success
    /\ resp.error = "refresh failed"

(***************************************************************************)
(* Ownership, partial failure and history of the bulk operations.          *)
(***************************************************************************)
\* the remote calls that take a playlist away from the user or rename it
Destructive == {"unfollowPlaylist", "changePlaylistDetails"}

\* C11: in a step of delete, merge or bulk-rename, every unfollow and every rename
\* the step issues is for a playlist whose cached row, as the step found it, is
\* owner-flagged: none is issued for a row flagged is_owner = false, nor for a
\* playlist without a row.
C11_NotOwnedNeverTargeted ==
    [][handler' \in {"delete", "merge", "bulk-rename"}
         => \A i \in 1..Len(calls') :
               calls'[i].op \in Destructive
                 => calls'[i].id \in DOMAIN cache /\ cache[calls'[i].id].is_owner]_vars

\* a bulk rename over an owned and a not-owned playlist: the first is renamed, the
\* second is reported failed without a call
C11_Witness ==
    /\ handler = "bulk-rename"
    /\ req.ids = <<"p1", "p3">>
    /\ opres.op = "bulkRename" /\ opres.success
    /\ "p3" \in DOMAIN cache /\ ~cache["p3"].is_owner
    /\ opres.failed = <<"p3">>
    /\ opres.renamed = 1
    /\ Len(CallsOf("changePlaylistDetails")) = 1

\* a merge with delete-source whose sources include a playlist the cache does not
\* flag as owned: the new playlist is there, no source was unfollowed
C11_WitnessMerge ==
    /\ handler = "merge"
    /\ req.deleteSource
    /\ req.ids = <<"p3", "p1">>
    /\ opres.op = "mergePlaylists" /\ opres.success
    /\ CallsOf("unfollowPlaylist") = <<>>
    /\ {"p1", "p3"} \subseteq rlib

\* the requested playlists that have a row in the cache c
Batch12(c, ids) == {p \in Range(ids) : p \in DOMAIN c}

\* the playlists whose unfollow was rejected in the step rs describes
Rejected(rs, op) == {rs[i].id : i \in {k \in 1..Len(rs) : rs[k].op = op}}

\* how many calls of cs are unfollows of the playlist p
Unfollows(cs, p) ==
    Cardinality({i \in 1..Len(cs) : cs[i].op = "unfollowPlaylist" /\ cs[i].id = p})

\* C12: a delete of a batch whose cached playlists are all owner-flagged attempts
\* the unfollow of each of them exactly once, whichever attempts reject; the
\* playlists whose attempt rejects are the failed list, all the others lose their
\* cache row and leave the library, and success is reported exactly when the failed
\* list is empty.
C12_DeleteGoesOnAfterFailure ==
    [][(DeleteRan' /\ Len(req'.ids) > 0 /\ RequestedNotOwned(cache, req'.ids) = {})
         => /\ \A p \in Batch12(cache, req'.ids) : Unfollows(calls', p) = 1
            /\ \A p \in AllIds \ Batch12(cache, req'.ids) : Unfollows(calls', p) = 0
            /\ Range(opres'.failed) = Rejected(raised', "unfollowPlaylist")
            /\ NoDuplicate(opres'.failed)
            /\ Range(opres'.failed) \subseteq Batch12(cache, req'.ids)
            /\ DOMAIN cache' = DOMAIN cache \ (Batch12(cache, req'.ids) \ Range(opres'.failed))
            /\ rlib' = rlib \ (Batch12(cache, req'.ids) \ Range(opres'.failed))
            /\ opres'.deleted = Cardinality(Batch12(cache, req'.ids) \ Range(opres'.failed))
            /\ opres'.success <=> (opres'.failed = <<>>)]_vars

\* two owned playlists: the unfollow of the first was rejected, the second was
\* unfollowed and deleted all the same
C12_Witness ==
    /\ DeleteRan
    /\ req.ids = <<"p1", "p2">>
    /\ calls = <<Call("unfollowPlaylist", "p1", <<>>), Call("unfollowPlaylist", "p2", <<>>)>>
    /\ Rejected(raised, "unfollowPlaylist") = {"p1"}
    /\ opres.failed = <<"p1">>
    /\ opres.deleted = 1
    /\ ~opres.success
    /\ "p1" \in DOMAIN cache /\ "p2" \notin DOMAIN cache

\* the well-formed track URIs the playlist id holds
TrackUrisOf(id) == {u \in Range(UrisOf(rtracks[id])) : WellFormed(u)}

\* C13: in a merge, the rejection of a track fetch of one source stays with that
\* source: the merge still succeeds, and the new playlist holds the track URIs of
\* every other source.
C13_SourceFetchFailureIsLocal ==
    (MergeRan /\ Rejected(raised, "getPlaylistTracks") # {})
      => /\ opres.success
         /\ \A q \in Range(req.ids) \ Rejected(raised, "getPlaylistTracks") :
               TrackUrisOf(q) \subseteq Range(Written(opres.playlistId))

\* the URI sequence the playlist id holds in the remote contents tr
WrittenIn(tr, id) == [i \in 1..Len(tr[id]) |-> tr[id][i].uri]

\* the calls of the merge proper: reading the sources, creating, appending
Building14 == {"getPlaylistTracks", "createPlaylist", "addTracksToPlaylist"}

\* the places in cs of the calls whose operation is in ops
Places(cs, ops) == {i \in 1..Len(cs) : cs[i].op \in ops}

\* one of the calls of the merge proper was rejected in the step rs describes
BuildRejected(rs) == \E i \in 1..Len(rs) : rs[i].op \in Building14

\* C14: in a merge with delete-source, every unfollow of a source comes after the
\* new playlist was created and the last batch was added, and a source loses its
\* cache row only in a step that unfollowed it; a merge whose create or add call is
\* rejected unfollows no source and leaves the cache and the library of sources as
\* they were; and a merge whose appends all went through reports success with the
\* new playlist id and its track count even when an unfollow of a source is rejected
\* or the batch of sources is refused as not owned.
C14_SourcesDeletedAfterMerge ==
    [][(MergeRan' /\ req'.deleteSource)
         => /\ \A i \in Places(calls', {"unfollowPlaylist"}) :
                  /\ \A j \in Places(calls', Building14) : j < i
                  /\ Places(calls', {"createPlaylist"}) # {}
                  /\ ~BuildRejected(raised')
                  /\ Added(calls') = WrittenIn(rtracks', NextNewId)
            /\ \A p \in DOMAIN cache \ DOMAIN cache' :
                  p \in Range(req'.ids) /\ Unfollows(calls', p) = 1
            /\ BuildRejected(raised')
                  => /\ Places(calls', {"unfollowPlaylist"}) = {}
                     /\ cache' = cache
                     /\ rlib' \cap Range(req'.ids) = rlib \cap Range(req'.ids)
                     /\ \A i \in 1..Len(dbops') : dbops'[i].op # "delete"
                     /\ ~opres'.success
            /\ (Places(calls', {"createPlaylist"}) # {} /\ ~BuildRejected(raised'))
                  => /\ opres'.success
                     /\ resp'.success
                     /\ opres'.playlistId = NextNewId
                     /\ opres'.playlistId \in rlib'
                     /\ opres'.trackCount = Len(WrittenIn(rtracks', NextNewId))
                     /\ opres'.trackCount > 0]_vars

\* a merge that deleted one source and met a rejected unfollow on the other: it
\* reports success with the new playlist
C14_Witness ==
    /\ MergeRan
    /\ req.deleteSource
    /\ req.ids = <<"p1", "p2">>
    /\ Rejected(raised, "unfollowPlaylist") = {"p2"}
    /\ "p1" \notin DOMAIN cache /\ "p2" \in DOMAIN cache
    /\ opres.success
    /\ opres.playlistId \in rlib
    /\ opres.trackCount = 3

\* a merge whose batch of sources was refused by the ownership check of the delete
C14_WitnessRefused ==
    /\ MergeRan
    /\ req.deleteSource
    /\ req.ids = <<"p3", "p1">>
    /\ opres.success
    /\ CallsOf("unfollowPlaylist") = <<>>
    /\ raised = <<>>
    /\ {"p1", "p3"} \subseteq DOMAIN cache

\* a merge with delete-source whose add-tracks call was rejected
C14_WitnessAddRejected ==
    /\ MergeRan
    /\ req.deleteSource
    /\ Rejected(raised, "addTracksToPlaylist") # {}
    /\ ~opres.success
    /\ {"p1", "p2", "p3"} \subseteq DOMAIN cache

\* the five bulk operations, and the remote calls that change the user's library
BulkHandlers == {"delete", "merge", "remove-duplicates", "fix-broken-links", "bulk-rename"}
Mutations == {"unfollowPlaylist", "createPlaylist", "addTracksToPlaylist", "changePlaylistDetails"}

\* at least one mutating call of cs went through: more were issued than rejected
Performed(cs, rs) == Cardinality(Places(cs, Mutations)) > Cardinality(Places(rs, Mutations))

\* C15: a step of one of the five bulk operations in which a mutating remote call
\* went through appends exactly one entry to the operation history.
C15_OneHistoryEntry ==
    [][(handler' \in BulkHandlers /\ Performed(calls', raised'))
         => /\ Len(history') = Len(history) + 1
            /\ SubSeq(history', 1, Len(history)) = history]_vars

\* the last step was a delete that reached its loop and wrote its history entry
DeleteLogged == DeleteRan /\ \E i \in 1..Len(dbops) : dbops[i].op = "log"

\* the playlists the calls cs tried to unfollow
Tried(cs) == {cs[i].id : i \in Places(cs, {"unfollowPlaylist"})}

\* C16: the history entry a delete writes names as affected exactly the playlists
\* whose unfollow went through, each once: no playlist whose unfollow was rejected,
\* no requested id the loop never reached; its can_undo is false.
C16_DeleteEntryListsDeleted ==
    DeleteLogged =>
        LET e == history[Len(history)]
        IN /\ e.type = "delete"
           /\ e.can_undo = FALSE
           /\ NoDuplicate(e.affected)
           /\ Range(e.affected) = Tried(calls) \ Rejected(raised, "unfollowPlaylist")
           /\ Range(e.affected) \subseteq Range(req.ids)
           /\ Range(e.affected) \cap (DOMAIN cache \cup rlib) = {}
           /\ Len(e.affected) = opres.deleted
           /\ e.details.total = Len(req.ids)
           /\ e.details.failed = Len(opres.failed)

\* a delete of two playlists, the unfollow of one rejected: the entry names the other
C16_Witness ==
    /\ DeleteLogged
    /\ req.ids = <<"p2", "p1">>
    /\ Rejected(raised, "unfollowPlaylist") = {"p2"}
    /\ history[Len(history)].affected = <<"p1">>
    /\ history[Len(history)].details.failed = 1

\* a delete that names a playlist without a cache row: the entry leaves it out
C16_WitnessNoRow ==
    /\ DeleteLogged
    /\ req.ids = <<"p1", "p3">>
    /\ Tried(calls) = {"p1"}
    /\ raised = <<>>
    /\ history[Len(history)].affected = <<"p1">>
    /\ history[Len(history)].details.total = 2

\* C17: a delete that ran to completion with some playlists deleted and some
\* rejected by the remote answers success: true, the partial outcome inside data as
\* {deleted, failed}.
C17_PartialFailureInsideData ==
    (DeleteLogged /\ opres.deleted > 0 /\ opres.failed # <<>>)
      => /\ resp.success
         /\ resp.data.deleted = opres.deleted
         /\ resp.data.failed = opres.failed

\* the remote reads and writes whose rejection ends the operation that issued them
Fatal == {"getUserPlaylists", "getPlaylist", "getPlaylistTracks", "createPlaylist",
          "addTracksToPlaylist"}

\* the last step failed on a rejected remote call
FailedOnRejection ==
    /\ handler # "none"
    /\ ~resp.success
    /\ raised # <<>>
    /\ raised[Len(raised)].op \in Fatal

\* C18: the failure envelope of a facade operation that failed on a rejected remote
\* call carries the classifier's wait message when the rejection is a rate-limit
\* one, and the raw error message otherwise, whether the handler caught the error
\* or the engine returned it as a failure result.
C18_RateLimitMessageSurfaced ==
    FailedOnRejection =>
        resp.error = IF isRateLimit(raised[Len(raised)].kind) THEN WaitMessage
                     ELSE ErrorMessage(raised[Len(raised)].kind)

(***************************************************************************)
(* Fix broken links: which items count as unlinked, and its zero outcomes. *)
(***************************************************************************)
\* the last step was a fix-broken-links run that read its playlist to the end
FixCounted ==
    /\ handler = "fix-broken-links"
    /\ opres.op = "fixBrokenTracks"
    /\ "total" \in DOMAIN opres

FixedItems == rtracks[req.ids[1]]

\* the positions of the items with a null payload, a null catalog id, an is_playable
\* of false or no URI
Broken ==
    {i \in 1..Len(FixedItems) :
        \/ FixedItems[i].track = FALSE
        \/ FixedItems[i].id = FALSE
        \/ FixedItems[i].playable = FALSE
        \/ FixedItems[i].uri = <<>>}

\* the broken items that carry a track name and an artist name
BrokenNamed ==
    {i \in Broken : FixedItems[i].track /\ FixedItems[i].name # "" /\ FixedItems[i].artist # ""}

\* C19: a fix-broken-links run counts as unlinked exactly the items with a null
\* payload, a null catalog id, an is_playable of false or a missing URI, and issues
\* one search for each of those that has a name and an artist and none for any
\* other item.
C19_UnlinkedIsFourWayUnion ==
    FixCounted =>
        /\ opres.total = Cardinality(Broken)
        /\ Len(CallsOf("searchTracks")) = Cardinality(BrokenNamed)
        /\ \A k \in 1..Len(CallsOf("searchTracks")) :
              \E i \in BrokenNamed :
                  CallsOf("searchTracks")[k].arg = <<FixedItems[i].name, FixedItems[i].artist>>

\* a run over a playlist that mixes a sound item with an unplayable one
C19_Witness ==
    /\ FixCounted
    /\ \E i \in Broken : FixedItems[i] = tUnplayable
    /\ \E i \in 1..Len(FixedItems) : i \notin Broken
    /\ Len(CallsOf("searchTracks")) > 0

\* a run over a playlist of sound items only
C19_WitnessNoneBroken ==
    /\ FixCounted
    /\ Len(FixedItems) > 0
    /\ Broken = {}
    /\ opres.total = 0

\* C20: a fix-broken-links run that recovers nothing creates no playlist, and it
\* either succeeds with total 0, when the playlist has no unlinked item, or fails
\* with the number of unlinked items as its total, when it has some.
C20_ZeroRecoveredOutcomes ==
    [][(handler' = "fix-broken-links" /\ opres'.op = "fixBrokenTracks"
          /\ "recovered" \in DOMAIN opres' /\ opres'.recovered = 0)
        => /\ CallsOf("createPlaylist")' = <<>>
           /\ created' = created /\ rlib' = rlib /\ rtracks' = rtracks
           /\ IF unlinkedTracks(rtracks[req'.ids[1]]) = <<>>
              THEN opres'.success /\ opres'.total = 0 /\ resp'.success
              ELSE /\ ~opres'.success /\ ~resp'.success
                   /\ opres'.total = Len(unlinkedTracks(rtracks[req'.ids[1]]))
                   /\ opres'.total > 0]_vars

\* nothing was unlinked
C20_Witness ==
    /\ FixCounted /\ opres.success /\ opres.total = 0 /\ opres.recovered = 0

\* some items were unlinked and none recovered
C20_WitnessNoneRecovered ==
    /\ FixCounted /\ ~opres.success /\ opres.total > 0 /\ opres.recovered = 0
    /\ CallsOf("searchTracks") # <<>>

(***************************************************************************)
(* Bulk rename: what is skipped, what is refused and what is renamed.      *)
(***************************************************************************)
\* the name the request's substitution gives a cached playlist
Substituted(c, r, id) == ReplaceAll(c[id].name, r.find.text, r.replacement)

\* the targets that are cached and owned and whose name the substitution keeps
Unaffected(c, r) ==
    {id \in Range(r.ids) : id \in DOMAIN c /\ c[id].is_owner /\ Substituted(c, r, id) = c[id].name}

InSeq(x, seq) == \E i \in 1..Len(seq) : seq[i] = x

\* C21: a bulk rename issues no rename call and no cache write for a target that is
\* cached and owned and whose substituted name is its current name, and counts it
\* neither as renamed nor as failed; when every target is such a one the result
\* is renamed = 0 with an empty failed list.
C21_UnchangedNameSkipped ==
    [][(handler' = "bulk-rename" /\ opres'.op = "bulkRename" /\ opres'.success)
        => /\ \A id \in Unaffected(cache, req') :
                 /\ \A i \in 1..Len(calls') : calls'[i].id # id
                 /\ \A i \in 1..Len(dbops') : dbops'[i] # DbOp("updateName", id)
                 /\ cache'[id] = cache[id]
                 /\ rname'[id] = rname[id]
                 /\ ~InSeq(id, opres'.failed)
           /\ opres'.renamed + Len(opres'.failed)
                 <= Len(req'.ids) - Cardinality(Unaffected(cache, req'))
           /\ Unaffected(cache, req') = Range(req'.ids)
                 => opres'.renamed = 0 /\ opres'.failed = <<>> /\ cache' = cache]_vars

\* every target of the batch keeps its name, one of them because the pattern matches
\* and the replacement is the text it matched
C21_Witness ==
    /\ handler = "bulk-rename" /\ opres.op = "bulkRename" /\ opres.success
    /\ req.find.text = <<"M", "i">> /\ req.replacement = <<"M", "i">>
    /\ Unaffected(cache, req) = Range(req.ids)
    /\ opres.renamed = 0 /\ opres.failed = <<>>

\* one target keeps its name while another of the same batch is renamed
C21_WitnessMixed ==
    /\ handler = "bulk-rename" /\ opres.op = "bulkRename" /\ opres.success
    /\ opres.renamed = 1
    /\ \E id \in Range(req.ids) : id \in DOMAIN cache /\ cache[id].is_owner
                                    /\ \A i \in 1..Len(calls) : calls[i].id # id

\* the cached targets whose substituted name is empty or whitespace-only
Blanked(c, r) ==
    {id \in Range(r.ids) : id \in DOMAIN c /\ IsBlank(Substituted(c, r, id))}

\* the cached and owned targets whose substituted name is a new name with text in it
Renamable(c, r) ==
    {id \in Range(r.ids) : /\ id \in DOMAIN c /\ c[id].is_owner
                           /\ Substituted(c, r, id) # c[id].name
                           /\ ~IsBlank(Substituted(c, r, id))}

RenameAccepted(cs, rs) ==
    {id \in AllIds : /\ \E i \in 1..Len(cs) : cs[i].op = "changePlaylistDetails" /\ cs[i].id = id
                     /\ \A j \in 1..Len(rs) : rs[j].id # id}

Writes == {"addTracksToPlaylist", "changePlaylistDetails", "unfollowPlaylist"}

\* C23: a remove-duplicates run issues no add-tracks, rename or unfollow call for
\* the playlist it was given and writes no cache row; the remote contents, name
\* and membership of that playlist stay as they were, and every add-tracks call
\* goes to a playlist created earlier in the same run under the name of the
\* original followed by " - No Duplicates".
C23_SourceNeverMutated ==
    [][(handler' = "remove-duplicates" /\ opres'.op = "removeDuplicates")
        => LET src == req'.ids[1]
           IN /\ \A i \in 1..Len(calls') : calls'[i].op \in Writes => calls'[i].id # src
              /\ cache' = cache
              /\ \A i \in 1..Len(dbops') : dbops'[i].op = "log"
              /\ rtracks'[src] = rtracks[src]
              /\ rname'[src] = rname[src]
              /\ (src \in rlib') = (src \in rlib)
              /\ \A i \in 1..Len(calls') :
                    calls'[i].op = "addTracksToPlaylist"
                      => /\ calls'[i].id \notin rlib
                         /\ calls'[i].id # src
                         /\ \E j \in 1..(i - 1) :
                               calls'[j] = Call("createPlaylist", calls'[i].id,
                                                rname[src] \o <<" ", "-", " ", "N", "o", " ", "D", "u",
                                                                "p", "l", "i", "c", "a", "t", "e", "s">>)]_vars

\* a run that found duplicates and filled the new playlist
C23_Witness ==
    /\ handler = "remove-duplicates" /\ opres.op = "removeDuplicates" /\ opres.success
    /\ CallsOf("addTracksToPlaylist") # <<>>
    /\ opres.playlistId \in rlib
    /\ opres.duplicatesRemoved > 0

\* a run whose add-tracks call the remote rejected after the playlist was created
C23_WitnessAddRejected ==
    /\ handler = "remove-duplicates" /\ opres.op = "removeDuplicates" /\ ~opres.success
    /\ CallsOf("createPlaylist") # <<>>
    /\ raised # <<>> /\ raised[1].op = "addTracksToPlaylist"

(***************************************************************************)
(* End to end: sync, then merge with the sources deleted.                  *)
(***************************************************************************)
\* the listing pass over the scenario's library, started on an empty cache
ScenarioSync ==
    /\ handler' = "sync" /\ cache = <<>> /\ rlib = ScenarioIds /\ resp'.success

\* the merge of the two playlists with dedupe and delete-source, on the cache the
\* listing pass left, with no remote call rejected
ScenarioMergeRuns ==
    /\ handler' = "merge"
    /\ req' = MergeReq(ScenarioMerge, <<"N", "e", "w">>, TRUE, TRUE)
    /\ opres'.op = "mergePlaylists"
    /\ DOMAIN cache = ScenarioIds
    /\ rlib = ScenarioIds
    /\ raised' = <<>>

\* C24: on an empty cache the listing pass over three playlists of the user's own
\* reports total 3 and synced 3; merging two of them (4 and 3 tracks, one URI in
\* common) with dedupe and delete-source then creates a playlist of 6 tracks,
\* unfollows both sources, deletes 2 with none failed and removes both rows from
\* the cache.
C24_SyncMergeDeleteScenario ==
    [][/\ ScenarioSync
          => /\ resp'.data = [total |-> 3, synced |-> 3]
             /\ DOMAIN cache' = ScenarioIds
       /\ ScenarioMergeRuns
          => /\ opres'.success
             /\ opres'.trackCount = 6
             /\ Len(rtracks'[opres'.playlistId]) = 6
             /\ {c.id : c \in Range(CallsOf("unfollowPlaylist")')} = Range(ScenarioMerge)
             /\ \E i \in 1..Len(history') :
                   /\ history'[i].type = "delete"
                   /\ history'[i].details.deleted = 2
                   /\ history'[i].details.failed = 0
             /\ \A id \in Range(ScenarioMerge) : id \notin DOMAIN cache' /\ id \notin rlib']_vars

\* the part of the scenario the program delivers: the listing pass reports 3 and
\* 3, and the merge creates a playlist of 6 tracks
C24_ScenarioUpToMerge ==
    [][/\ ScenarioSync => resp'.data = [total |-> 3, synced |-> 3]
       /\ ScenarioMergeRuns
          => /\ opres'.success
             /\ opres'.trackCount = 6
             /\ Len(rtracks'[opres'.playlistId]) = 6]_vars

(***************************************************************************)
(* The cache under a detail pass that runs beside the handlers.            *)
(***************************************************************************)
CacheWrites == {"upsert", "delete", "updateTags", "updateName"}

CacheWritten(ds) == \E i \in 1..Len(ds) : ds[i].op \in CacheWrites

\* the passes that have written the cache and still have a fetch to settle
WritingPasses(ps) ==
    {i \in 1..Len(ps) : ps[i].synced > 0 /\ (ps[i].out # {} \/ ps[i].queue # <<>>)}

\* C25: at most one operation writes the cache at a time: when a listing pass, a
\* delete, an update of tags or a bulk rename writes the cache, no detail pass is
\* between two of its own cache writes.
C25_OneCacheWriterAtATime ==
    [][(handler' \in {"sync", "delete", "update-tags", "bulk-rename"} /\ CacheWritten(dbops'))
        => WritingPasses(passes) = {}]_vars

\* the playlists a delete has removed and recorded as deleted
DeletedIds ==
    UNION {Range(history[i].affected) : i \in {j \in 1..Len(history) : history[j].type = "delete"}}

\* C26: the row of a playlist that a delete removed and reported deleted comes back
\* into the cache only through a listing pass that lists the playlist again: no
\* step of a detail pass, and no other handler, inserts it.
C26_DeletedRowStaysDeleted ==
    [][\A id \in DeletedIds :
          (id \notin DOMAIN cache /\ id \in DOMAIN cache')
            => handler' = "sync" /\ id \in rlib]_vars

\* the pages of a listing that arrived before the call that rejected
PagesServed == Len(calls) - 1

\* the playlists the remote lists on pages 1..k
ListedOnPages(k) ==
    {Listing(rlib)[i] : i \in {j \in 1..Len(Listing(rlib)) : j <= k * PLAYLISTS_PER_REQUEST}}

\* C28: when the listing pass fails on the fetch of page k+1, every playlist of pages
\* 1..k is in the cache: the records of a page are upserted before the next page is
\* requested.
C28_PagesStoredAsTheyArrive ==
    (handler = "sync" /\ raised # <<>> /\ PagesServed > 0)
        => ListedOnPages(PagesServed) \subseteq DOMAIN cache

\* a listing pass that failed on its first page leaves the cache as it was, and one
\* that runs to its end stores every listed playlist
C28_ListingStoresAllOrNothing ==
    [][handler' = "sync" =>
          IF raised' # <<>> \/ ~resp'.success THEN cache' = cache
          ELSE rlib \subseteq DOMAIN cache']_vars

\* the playlists whose detail fetch the last step issued
FetchesIssued ==
    {calls[k].id : k \in {j \in 1..Len(calls) : calls[j].op = "getPlaylist"}}

\* C29: the batches of a detail pass run one after another and the playlists of a
\* batch are fetched together: a pass never has more than BATCH_SIZE fetches
\* outstanding, and it issues fetches only when none of its earlier fetches is
\* outstanding; the fetches issued are then all that is outstanding.
C29_BatchesSequential ==
    [][/\ \A i \in 1..Len(passes') : Cardinality(passes'[i].out) <= BATCH_SIZE
       /\ FetchesIssued' # {} =>
             \E i \in 1..Len(passes) :
                 /\ passes[i].out = {}
                 /\ Len(passes') = Len(passes)
                 /\ passes'[i].out = FetchesIssued'
                 /\ \A j \in 1..Len(passes) : j # i => passes'[j] = passes[j]]_vars

\* a full batch is outstanding
C29_WitnessFullBatch ==
    \E i \in 1..Len(passes) : Cardinality(passes[i].out) = BATCH_SIZE

\* the second batch of a pass has just been issued, the first batch of five settled
C29_Witness ==
    /\ FetchesIssued # {}
    /\ \E i \in 1..Len(passes) :
          /\ passes[i].out = FetchesIssued
          /\ passes[i].synced + passes[i].failed = BATCH_SIZE

\* a pass accounts for every playlist it selected once: waiting, outstanding, or settled
Accounted(pass) ==
    /\ NoDuplicate(pass.queue)
    /\ Range(pass.queue) \cap pass.out = {}
    /\ Len(pass.queue) + Cardinality(pass.out) + pass.synced + pass.failed = pass.total

\* the playlists whose detail fetch rejected in the last step
FetchesFailed ==
    {raised[k].id : k \in {j \in 1..Len(raised) : raised[j].op = "getPlaylist"}}

\* C30: a detail pass attempts every playlist it selected exactly once: each fetch it
\* issues is for a playlist that was waiting and waits no more, one call a playlist.
\* A fetch that fails is counted failed, leaves the cache as it was and leaves the
\* other playlists of the pass waiting or outstanding as they were; when the pass
\* returns, synced + failed = total.
C30_EveryPlaylistAttemptedOnce ==
    [][/\ \A i \in 1..Len(passes') : Accounted(passes'[i])
       /\ FetchesIssued' # {} =>
             /\ Len(calls') = Cardinality(FetchesIssued')
             /\ \E i \in 1..Len(passes) :
                   /\ FetchesIssued' \subseteq Range(passes[i].queue)
                   /\ FetchesIssued' \cap Range(passes'[i].queue) = {}
       /\ \A id \in FetchesFailed' :
             /\ cache' = cache
             /\ \E i \in 1..Len(passes) :
                   /\ id \in passes[i].out
                   /\ passes'[i] = [passes[i] EXCEPT !.out = @ \ {id}, !.failed = @ + 1]
       /\ opres'.op = "syncPlaylistDetailsBackground" =>
             opres'.synced + opres'.failed = opres'.total]_vars

\* a pass over two batches returns with a fetch of the first batch failed and the
\* playlist of the second batch upserted with its duration
C30_Witness ==
    /\ opres.op = "syncPlaylistDetailsBackground"
    /\ opres.total > BATCH_SIZE
    /\ opres.failed = 1
    /\ opres.synced = opres.total - 1
    /\ "p2" \in DOMAIN cache
    /\ cache["p2"].duration_ms > 0
    /\ \E id \in DOMAIN cache : id # "p3" /\ cache[id].duration_ms = 0

\* the last step built a playlist and reported success
Built ==
    /\ handler \in {"merge", "remove-duplicates", "fix-broken-links"}
    /\ opres.op \in {"mergePlaylists", "removeDuplicates", "fixBrokenTracks"}
    /\ opres.success
    /\ HasCreate(calls)

\* the track count the last step reported for the playlist it built
ReportedCount ==
    IF opres.op = "mergePlaylists" THEN opres.trackCount
    ELSE IF opres.op = "removeDuplicates" THEN opres.uniqueCount
    ELSE opres.recovered

\* the validated URI sequence of a merge or a remove-duplicates request: the URIs of
\* the source items in order, first occurrences only when deduplicating, the
\* well-formed track URIs among them
ValidatedUris ==
    LET src == UrisOf(Flatten(req.ids))
        dedupe == opres.op = "removeDuplicates" \/ req.removeDuplicates
        at == SelectSeq([i \in 1..Len(src) |-> i],
                        LAMBDA i : /\ WellFormed(src[i])
                                   /\ dedupe => \A j \in 1..(i - 1) : src[j] # src[i])
    IN [k \in 1..Len(at) |-> src[at[k]]]

\* C31: a merge, a remove-duplicates or a fix-broken-links that builds a playlist
\* appends its n URIs in ceil(n / 100) add-tracks calls of 1 to 100 URIs each; the
\* batches, one after the other, are the validated URI sequence, and n is the
\* track count reported.
C31_AppendedInBatches ==
    Built =>
       LET adds == CallsOf("addTracksToPlaylist")
           n == ReportedCount
       IN /\ \A i \in 1..Len(adds) : Len(adds[i].arg) >= 1 /\ Len(adds[i].arg) <= 100
          /\ Len(adds) * 100 >= n
          /\ (Len(adds) - 1) * 100 < n
          /\ Len(Added(calls)) = n
          /\ \A i \in 1..Len(adds) : adds[i].id = opres.playlistId
          /\ Added(calls) = Written(opres.playlistId)
          /\ opres.op # "fixBrokenTracks" => Added(calls) = ValidatedUris

\* a merge of 102 and 100 tracks without deduplication: 202 URIs in batches of 100,
\* 100 and 2
C31_Witness ==
    /\ Built
    /\ opres.op = "mergePlaylists"
    /\ opres.trackCount = 202
    /\ Len(CallsOf("addTracksToPlaylist")) = 3
    /\ Len(CallsOf("addTracksToPlaylist")[3].arg) = 2

\* a remove-duplicates that keeps exactly 100 URIs appends them in one call
C31_WitnessFullBatch ==
    /\ Built
    /\ opres.op = "removeDuplicates"
    /\ opres.uniqueCount = 100
    /\ Len(CallsOf("addTracksToPlaylist")) = 1

\* the recovery loop is running
InLoop == recovery.phase = "loop"

\* the search the last step made rejected
SearchRejected == \E i \in 1..Len(raised) : raised[i].op = "searchTracks"

\* C32: the recovery loop of fix-broken-links runs to completion.  The tracks before
\* the loop's position are each counted once, recovered or failed; an iteration moves
\* the position on by one track and makes at most one search; a search that rejects
\* is counted failed and leaves the loop running, with no result returned; and a run
\* that entered the loop returns a result.
C32_RecoveryLoopCompletes ==
    /\ [](InLoop =>
            /\ recovery.at <= Len(recovery.unlinked) + 1
            /\ Len(recovery.recovered) + Len(recovery.failed) = recovery.at - 1)
    /\ [][/\ (InLoop /\ InLoop' /\ recovery' # recovery) =>
                /\ recovery'.at = recovery.at + 1
                /\ recovery'.unlinked = recovery.unlinked
                /\ Len(calls') <= 1
          /\ SearchRejected' =>
                /\ InLoop /\ InLoop'
                /\ recovery'.failed = Append(recovery.failed,
                                             [at |-> recovery.at, reason |-> "error"])
                /\ recovery'.recovered = recovery.recovered
                /\ opres' = NoRes
                /\ resp' = NoResp]_vars
    /\ InLoop ~> (~InLoop /\ opres.op = "fixBrokenTracks" /\ resp.op = "fix-broken-links")

\* the loop has gone through four unlinked tracks, one of them recovered, with a
\* search that rejected on the way
C32_Witness ==
    /\ InLoop
    /\ Len(recovery.unlinked) = 4
    /\ recovery.at = 5
    /\ recovery.errs # {}
    /\ Len(recovery.recovered) = 1

\* what a run returns after the loop is what fixBrokenTracks computes for the
\* searches that rejected
RecoveryAgreesWithFixBrokenTracks ==
    [][(InLoop /\ ~InLoop' /\ opres'.op = "fixBrokenTracks" /\ raised' = <<>>) =>
          /\ opres'.recovered = Len(recoveredUris(recovery.unlinked, recovery.errs))
          /\ opres'.failed = Len(failedTracks(recovery.unlinked, recovery.errs))
          /\ opres'.total = Len(recovery.unlinked)
          /\ recovery.recovered = recoveredUris(recovery.unlinked, recovery.errs)]_vars

\* the playlists whose unfollow the last step issued and the remote accepted
Unfollowed == Tried(calls) \ Rejected(raised, "unfollowPlaylist")

\* C33: when a delete returns from its loop, the playlists it counts as deleted have
\* each been unfollowed and have no cache row, and the playlists it lists as failed
\* are still followed as before and keep their cache row unchanged: the step removes
\* a cache row exactly where it removes the playlist from the remote library.
C33_DeletedOnBothSidesOrNeither ==
    [][DeleteLogged' =>
          LET e == history'[Len(history')]
          IN /\ Len(e.affected) = opres'.deleted
             /\ \A id \in Range(e.affected) :
                   /\ id \in Unfollowed'
                   /\ id \notin rlib'
                   /\ id \notin DOMAIN cache'
             /\ \A id \in Range(opres'.failed) :
                   /\ id \notin Unfollowed'
                   /\ id \in rlib <=> id \in rlib'
                   /\ id \in DOMAIN cache'
                   /\ cache'[id] = cache[id]
             /\ \A id \in AllIds :
                   /\ (id \in DOMAIN cache /\ id \notin DOMAIN cache') <=> id \in Unfollowed'
                   /\ (id \in rlib /\ id \notin rlib') => id \in Unfollowed'
                   /\ id \in Unfollowed' => id \notin rlib']_vars

\* a delete of two playlists has returned with the first deleted on both sides and
\* the second, whose unfollow was rejected, still on both
C33_Witness ==
    /\ DeleteLogged
    /\ opres.deleted = 1
    /\ opres.failed = <<"p2">>
    /\ history[Len(history)].affected = <<"p1">>
    /\ "p1" \notin rlib /\ "p1" \notin DOMAIN cache
    /\ "p2" \in rlib /\ "p2" \in DOMAIN cache

\* C34: a delete that passes the ownership check reports every requested id, once,
\* as deleted or as failed: deleted + |failed| is the number of requested ids, the
\* total of the history entry, also when a requested id has no cache row.
C34_EveryRequestedIdReported ==
    DeleteLogged =>
        LET e == history[Len(history)]
        IN /\ opres.deleted + Len(opres.failed) = Len(req.ids)
           /\ e.details.deleted + e.details.failed = e.details.total
           /\ Range(e.affected) \cup Range(opres.failed) = Range(req.ids)
           /\ Range(e.affected) \cap Range(opres.failed) = {}

\* what holds instead: the ids reported are the requested ids that have a cache row
C34_CachedIdsReported ==
    [][DeleteLogged' =>
          LET e == history'[Len(history')]
          IN /\ Range(e.affected) \cup Range(opres'.failed) = Range(req'.ids) \cap DOMAIN cache
             /\ Range(e.affected) \cap Range(opres'.failed) = {}
             /\ opres'.deleted + Len(opres'.failed)
                   = Cardinality(Range(req'.ids) \cap DOMAIN cache)
             /\ e.details.total = Len(req'.ids)]_vars

\* C35: a merge that reports failure has left no new remote playlist behind: either
\* it made no create-playlist call that resolved, or every batch was appended and it
\* reports success; a rejected add-tracks batch never leaves a created, partly filled
\* playlist without a history entry.
C35_FailedMergeLeavesNothing ==
    [][(MergeRan' /\ ~opres'.success) =>
          /\ rlib' = rlib
          /\ created' = created
          /\ rtracks' = rtracks]_vars

\* what holds instead: a failed merge writes no history entry, and the playlist it
\* leaves behind, if any, holds the batches that resolved before the rejected one
C35_FailedMergeLeavesResolvedBatches ==
    [][(MergeRan' /\ ~opres'.success) =>
          /\ history' = history
          /\ \/ rlib' = rlib /\ created' = created /\ rtracks' = rtracks
             \/ /\ rlib' = rlib \cup {NextNewId}
                /\ created' = created + 1
                /\ Rejected(raised', "addTracksToPlaylist") = {NextNewId}
                /\ WrittenIn(rtracks', NextNewId)
                      = Added(SubSeq(calls', 1, Len(calls') - 1))]_vars

\* a fix-broken-links run has returned its counts
FixReturnedCounts == opres.op = "fixBrokenTracks" /\ "total" \in DOMAIN opres

\* C36: whenever fix-broken-links returns counts, recovered + failed = total.  Every
\* unlinked track is counted once, as recovered, with one replacement URI, or as
\* failed, for want of metadata, of candidates or of a search that resolved; and the
\* URIs written to the new playlist are the recovered ones.
C36_RecoveredPlusFailedIsTotal ==
    /\ [](FixReturnedCounts => opres.recovered + opres.failed = opres.total)
    /\ [](InLoop =>
            /\ \A k \in 1..Len(recovery.failed) :
                  /\ recovery.failed[k].at \in 1..(recovery.at - 1)
                  /\ recovery.failed[k].reason
                        = Recovery(recovery.unlinked[recovery.failed[k].at],
                                   recovery.failed[k].at \in recovery.errs)
                  /\ recovery.failed[k].reason \in {"insufficient", "nomatch", "error"}
                  /\ \A j \in 1..(k - 1) : recovery.failed[j].at < recovery.failed[k].at
            /\ Len(recovery.recovered)
                  = Cardinality({i \in 1..(recovery.at - 1) :
                                    Recovery(recovery.unlinked[i], i \in recovery.errs)
                                       = "recovered"})
            /\ \A i \in 1..(recovery.at - 1) :
                  Recovery(recovery.unlinked[i], i \in recovery.errs) = "recovered"
                     <=> \A k \in 1..Len(recovery.failed) : recovery.failed[k].at # i)
    /\ [][(InLoop /\ ~InLoop' /\ FixReturnedCounts') =>
             /\ opres'.total = Len(recovery.unlinked)
             /\ opres'.recovered = Len(recovery.recovered)
             /\ opres'.failed = Len(recovery.failed)
             /\ opres'.success =>
                   /\ Added(calls') = recovery.recovered
                   /\ WrittenIn(rtracks', opres'.playlistId) = recovery.recovered
                   /\ Len(WrittenIn(rtracks', opres'.playlistId)) = opres'.recovered]_vars

\* a run over four unlinked tracks has returned with one recovered and three failed
C36_Witness ==
    /\ FixReturnedCounts
    /\ opres.success
    /\ opres.total = 4
    /\ opres.recovered = 1
    /\ opres.failed = 3
    /\ Len(Written(opres.playlistId)) = 1

\* C37: a remove-duplicates run that succeeds reports consistent counts: uniqueCount,
\* the number of URIs written to the new playlist, plus duplicatesRemoved is
\* originalCount, also for a playlist with unlinked items or malformed URIs.
C37_CountsAddUp ==
    (RemoveDuplicatesRan /\ opres.success) =>
        /\ opres.uniqueCount = Len(Written(opres.playlistId))
        /\ opres.uniqueCount + opres.duplicatesRemoved = opres.originalCount

\* what holds instead: originalCount also counts the items the loop skips and the
\* unique URIs the validation drops
C37_CountsAddUpWithDropped ==
    [][(RemoveDuplicatesRan' /\ opres'.success) =>
          LET items == allTracks(rtracks[req'.ids[1]])
          IN /\ opres'.uniqueCount = Len(WrittenIn(rtracks', opres'.playlistId))
             /\ opres'.originalCount = Len(items)
             /\ opres'.originalCount
                   = opres'.uniqueCount + opres'.duplicatesRemoved
                       + (Len(items) - Len(Kept(items)))
                       + (Len(uniqueUris(items)) - Len(validTrackUris(uniqueUris(items))))]_vars

\* the last step was an update-tags request in append mode
TagsAppended == handler = "update-tags" /\ req.append

\* C38: after update-tags with append=true the tag string of every targeted cached
\* playlist holds every tag it held before and every tag supplied, each once, whatever
\* the tag string was before, the empty one included; so appending the same tags again
\* leaves the tag string as it is; and a target without a cache row is skipped and
\* not counted in updated.
C38_AppendMergesTags ==
    [][TagsAppended' =>
          /\ \A id \in Range(req'.ids) \cap DOMAIN cache :
                LET new == SplitTags(cache'[id].tags)
                IN /\ Range(new) = Range(SplitTags(cache[id].tags))
                                      \cup Range(SplitTags(req'.tags))
                   /\ NoDuplicate(new)
                   /\ NewTags(cache'[id].tags, req'.tags, TRUE) = cache'[id].tags
          /\ DOMAIN cache' = DOMAIN cache
          /\ resp'.data.updated = Cardinality(Range(req'.ids) \cap DOMAIN cache)]_vars

\* what holds instead: the tags are merged onto a tag string that is not empty, and
\* the supplied string replaces an empty one as it is
C38_AppendMergesOntoNonEmpty ==
    [][TagsAppended' =>
          /\ \A id \in Range(req'.ids) \cap DOMAIN cache :
                IF cache[id].tags = EmptyStr
                THEN cache'[id].tags = req'.tags
                ELSE LET new == SplitTags(cache'[id].tags)
                     IN /\ Range(new) = Range(SplitTags(cache[id].tags))
                                           \cup Range(SplitTags(req'.tags))
                        /\ NoDuplicate(new)
                        /\ cache'[id].tags = Join(new)
                        /\ NewTags(cache'[id].tags, req'.tags, TRUE) = cache'[id].tags
          /\ DOMAIN cache' = DOMAIN cache
          /\ resp'.data.updated = Cardinality(Range(req'.ids) \cap DOMAIN cache)]_vars

\* the last step returned from a call of getAccessToken
TokenCallReturned == opres.op = "getAccessToken"

\* the token the store holds is within the buffer of its expiry, or past it
StoredTokenStale == session.store.stored /\ NeedsRefresh(session.store, session.now)

\* getAccessToken returns null without stored tokens, never returns a token that is
\* expired or within five minutes of its expiry, and asks for a refresh when the
\* stored token is; a refresh that fails clears the stored tokens
SessionHandsOutNoStaleToken ==
    /\ [](TokenCallReturned /\ opres.value.kind = "token" =>
             /\ session.now < opres.value.expiresAt - RefreshBuffer
             /\ session.store.stored
             /\ session.store.accessToken = opres.value.issued)
    /\ [][\A i \in 1..MaxCalls :
            /\ (session.pending[i] = "idle" /\ TokenCallReturned' /\ opres'.call = i
                  /\ ~session.store.stored) => opres'.value.kind = "null"
            /\ (session.pending[i] = "idle" /\ TokenCallReturned' /\ opres'.call = i
                  /\ opres'.value.kind = "null") => ~session.store.stored
            /\ (session.pending[i] = "idle" /\ session'.pending[i] = "refreshing")
                  => StoredTokenStale
            /\ (session.pending[i] = "idle" /\ TokenCallReturned' /\ opres'.call = i
                  /\ opres'.value.kind = "token") => ~StoredTokenStale
            /\ (session.pending[i] = "refreshing" /\ TokenCallReturned' /\ opres'.call = i
                  /\ opres'.value.kind = "throw")
                  => /\ ~isAuthenticated(session'.store)
                     /\ token' = "none"]_vars

\* a refresh has failed and no authentication has succeeded since
Invalidated == session.invalidated

\* C39: the token session never hands out a stale token: getAccessToken returns null
\* when no tokens are stored and refreshes before it returns when the stored token is
\* expired or within five minutes of its expiry; and when that refresh fails the
\* stored tokens are cleared, so that from then on, until a new authentication
\* succeeds, isAuthenticated() is false and getAccessToken returns null.
C39_NoStaleTokenClearedOnFailure ==
    /\ SessionHandsOutNoStaleToken
    /\ [](Invalidated => ~isAuthenticated(session.store))
    /\ [][\A i \in 1..MaxCalls :
             (Invalidated /\ Invalidated' /\ session.pending[i] = "idle"
                /\ TokenCallReturned' /\ opres'.call = i)
                => opres'.value.kind = "null"]_vars

\* what holds instead: after a failed refresh the tokens come back by a new
\* authentication or by another refresh, in flight when the first failed, that resolves
C39_ClearedUntilAuthenticationOrOverlap ==
    [][(Invalidated /\ ~isAuthenticated(session.store) /\ isAuthenticated(session'.store))
          => \/ ~Invalidated'
             \/ \E i \in 1..MaxCalls :
                   /\ session.pending[i] = "refreshing"
                   /\ session'.pending[i] = "idle"
                   /\ TokenCallReturned' /\ opres'.call = i
                   /\ opres'.value.kind = "token"]_vars

====
